---- MODULE Spec2Model ----
(***************************************************************************)
(* Football alerts service: the relational store (leagues, teams, matches, *)
(* notifications), the three orchestration operations of MonitorService    *)
(* (fetch_and_store_fixtures, fetch_and_store_odds, monitor_live_matches), *)
(* the two alert dispatchers, the stale-match cleanup and the odds         *)
(* aggregator's parse_odds.                                                *)
(*                                                                         *)
(* Conventions.  Decimal odds are integers in hundredths (1.35 is 135).    *)
(* Datetimes are integers in seconds since day 0, 00:00:00.  Strings that  *)
(* the code compares by substring (team names, league keys) are sequences  *)
(* of character codes.  Python None is the value None in numeric columns.  *)
(***************************************************************************)
EXTENDS Integers, Sequences, FiniteSets, TLC

VARIABLES
    leagues,        \* rows of table "leagues"
    teams,          \* rows of table "teams"
    matches,        \* rows of table "matches"
    notifications,  \* rows of table "notifications"
    now,            \* the wall clock, in seconds
    salt,           \* the per-process salt of Python's str hash
    last,           \* what the most recent orchestration call did and returned
    call,           \* the most recent call of a pure function: argument and result
    fake_items_db,  \* the in-memory map of items by id
    next_id,        \* the id the next created item gets
    response,       \* the most recent request to the items routes and its response
    job,            \* the scheduler job that is running: its position and its session
    runs            \* the executions of monitor_live_matches in flight, each at a suspension point

vars == <<leagues, teams, matches, notifications, now, salt, last, call, fake_items_db, next_id, response, job, runs>>

(***************************************************************************)
(* Bounds of the model.                                                    *)
(***************************************************************************)
MaxBooks == 2       \* bookmakers per odds record handed to parse_odds
MaxMatches == 2     \* rows of table "matches"
MaxFeed == 1        \* records in one upstream response
MaxDay == 2         \* the clock stops at the end of this day
MaxNotifications == 2   \* rows of table "notifications"
MaxItems == 2       \* items created in one process lifetime
MaxBatch == 2       \* records in one odds feed of the batch specification
MaxScore == 3       \* goals of one side handed to is_favorite_losing
MaxMinute == 95     \* elapsed minute handed to is_in_monitoring_window

(***************************************************************************)
(* Program constants.                                                      *)
(***************************************************************************)
None == -1
Inf == 1000000000
FAVORITE_ODDS_THRESHOLD == 135
MONITOR_MINUTE_START == 55
MONITOR_MINUTE_END == 62
PseudoIdMod == 1000000
AwayOffset == 1000000
WindowHours == 20
MinuteCap == 90
TestIdFloor == 999990       \* provider ids from here on are test data
TestLeagueId == 999999
TestHomeId == 999998
TestAwayId == 999997
TestMatchId == 999996
TestOtherOdds == 200        \* 2.0, the odds of the side that is not the favorite
TestDrawOdds == 300         \* 3.0
NameMinLength == 1
NameMaxLength == 100
DescriptionMaxLength == 500
LEAGUES_TO_MONITOR == {39, 140, 135, 78, 61, 239}

DaySeconds == 86400
HourSeconds == 3600
MinuteSeconds == 60

(***************************************************************************)
(* Python helpers.                                                         *)
(***************************************************************************)
\* bool(x) of an optional number: None and 0 are falsy
Truthy(x) == x # None /\ x # 0

Min2(a, b) == IF a < b THEN a ELSE b

\* str.lower(): codes above 10 are the upper-case letters of codes 1..9
LowerChar(c) == IF c > 10 THEN c - 10 ELSE c
Lower(s) == [i \in 1..Len(s) |-> LowerChar(s[i])]

\* a in b, for strings
IsSubstring(a, b) ==
    \E i \in 0..(Len(b) - Len(a)) : \A k \in 1..Len(a) : b[i + k] = a[k]

(***************************************************************************)
(* TheOddsAPIService.parse_odds.                                           *)
(* odds_data = [home_team, away_team, bookmakers]; a bookmaker is          *)
(* [markets], a market [key, outcomes], an outcome [name, price].          *)
(***************************************************************************)
H2H == <<8, 2, 8>>
DrawName == <<14, 8>>

\* next((m for m in markets if m["key"] == "h2h"), None): index of the first, 0 if none
FirstH2H(markets) ==
    IF \E i \in 1..Len(markets) : markets[i].key = H2H
    THEN CHOOSE i \in 1..Len(markets) :
            /\ markets[i].key = H2H
            /\ \A j \in 1..(i - 1) : markets[j].key # H2H
    ELSE 0

\* next((o["price"] for o in outcomes if o["name"] == name), None)
FirstPrice(outcomes, name) ==
    IF \E i \in 1..Len(outcomes) : outcomes[i].name = name
    THEN outcomes[CHOOSE i \in 1..Len(outcomes) :
                    /\ outcomes[i].name = name
                    /\ \A j \in 1..(i - 1) : outcomes[j].name # name].price
    ELSE None

\* a faulty variant: the price of the bookmaker read last is kept
BookStepLastWins(acc, bookmaker, odds_data) ==
    LET k == FirstH2H(bookmaker.markets) IN
    IF k = 0 THEN acc
    ELSE LET outcomes == bookmaker.markets[k].outcomes
             curr_home == FirstPrice(outcomes, odds_data.home_team)
             curr_away == FirstPrice(outcomes, odds_data.away_team)
             curr_draw == FirstPrice(outcomes, DrawName)
         IN [home |-> IF Truthy(curr_home) THEN curr_home ELSE acc.home,
             away |-> IF Truthy(curr_away) THEN curr_away ELSE acc.away,
             draw |-> IF Truthy(curr_draw) THEN curr_draw ELSE acc.draw]

\* one turn of the loop over bookmakers: acc = [home, away, draw]
BookStep(acc, bookmaker, odds_data) ==
    LET k == FirstH2H(bookmaker.markets) IN
    IF k = 0 THEN acc
    ELSE LET outcomes == bookmaker.markets[k].outcomes
             curr_home == FirstPrice(outcomes, odds_data.home_team)
             curr_away == FirstPrice(outcomes, odds_data.away_team)
             curr_draw == FirstPrice(outcomes, DrawName)
         IN [home |-> IF Truthy(curr_home) /\ curr_home < acc.home
                      THEN curr_home ELSE acc.home,
             away |-> IF Truthy(curr_away) /\ curr_away < acc.away
                      THEN curr_away ELSE acc.away,
             draw |-> IF Truthy(curr_draw) /\ curr_draw < acc.draw
                      THEN curr_draw ELSE acc.draw]

RECURSIVE BestOdds(_, _, _)
BestOdds(acc, i, odds_data) ==
    IF i > Len(odds_data.bookmakers) THEN acc
    ELSE BestOdds(BookStep(acc, odds_data.bookmakers[i], odds_data), i + 1, odds_data)

NoOdds == [ok |-> FALSE]

\* a faulty variant: a result is refused only when both prices are missing
ParseOddsNeedsEither(odds_data) ==
    IF odds_data.bookmakers = <<>> THEN NoOdds
    ELSE LET best == BestOdds([home |-> Inf, away |-> Inf, draw |-> Inf], 1, odds_data)
         IN IF best.home = Inf /\ best.away = Inf THEN NoOdds
            ELSE [ok |-> TRUE,
                  home_odds |-> best.home,
                  away_odds |-> best.away,
                  draw_odds |-> IF best.draw # Inf THEN best.draw ELSE None,
                  favorite_team |-> IF best.home < best.away THEN "home" ELSE "away",
                  favorite_odds |-> IF best.home < best.away THEN best.home ELSE best.away]

parse_odds(odds_data) ==
    IF odds_data.bookmakers = <<>> THEN NoOdds
    ELSE LET best == BestOdds([home |-> Inf, away |-> Inf, draw |-> Inf], 1, odds_data)
         IN IF best.home = Inf \/ best.away = Inf THEN NoOdds
            ELSE [ok |-> TRUE,
                  home_odds |-> best.home,
                  away_odds |-> best.away,
                  draw_odds |-> IF best.draw # Inf THEN best.draw ELSE None,
                  favorite_team |-> IF best.home < best.away THEN "home" ELSE "away",
                  favorite_odds |-> IF best.home < best.away THEN best.home ELSE best.away]

(***************************************************************************)
(* The store.  A row is a record; a table is the set of its rows.  The     *)
(* default store is SQLite, whose integer primary key of a new row is one  *)
(* more than the largest key in the table.                                 *)
(***************************************************************************)
RECURSIVE MaxId(_)
MaxId(rows) ==
    IF rows = {} THEN 0
    ELSE LET r == CHOOSE x \in rows : TRUE
             rest == MaxId(rows \ {r})
         IN IF r.id > rest THEN r.id ELSE rest

NextId(rows) == MaxId(rows) + 1

\* the ids of rows, ascending: the order in which a query returns them
RECURSIVE SortedIds(_)
SortedIds(rows) ==
    IF rows = {} THEN <<>>
    ELSE LET lo == CHOOSE x \in rows : \A y \in rows : x.id <= y.id
         IN <<lo.id>> \o SortedIds(rows \ {lo})

\* query(...).filter(id == i).first() is not None
HasId(rows, i) == \E r \in rows : r.id = i
ById(rows, i) == CHOOSE r \in rows : r.id = i

\* a modified row written back to its table
Put(rows, r) == {IF x.id = r.id THEN r ELSE x : x \in rows}

League(id, api_id, name) == [id |-> id, api_id |-> api_id, name |-> name]
Team(id, api_id, name) == [id |-> id, api_id |-> api_id, name |-> name]

\* Match(...) with the column defaults of the model class
Match(id, api_id, league_id, home_team_id, away_team_id, match_date, status, home_odds, draw_odds, away_odds, favorite_team_id, favorite_odds, should_monitor) ==
    [id |-> id, api_id |-> api_id, league_id |-> league_id,
     home_team_id |-> home_team_id, away_team_id |-> away_team_id,
     match_date |-> match_date, status |-> status, current_minute |-> None,
     home_score |-> None, away_score |-> None,
     home_odds |-> home_odds, draw_odds |-> draw_odds, away_odds |-> away_odds,
     favorite_team_id |-> favorite_team_id, favorite_odds |-> favorite_odds,
     should_monitor |-> should_monitor, notification_sent |-> FALSE,
     notified_at |-> None]

Notification(id, match_id, message, status) ==
    [id |-> id, match_id |-> match_id, message |-> message, status |-> status]

\* a faulty variant: a level score counts as losing
IsFavoriteLosingOrLevel(m) ==
    IF ~Truthy(m.favorite_team_id) \/ m.home_score = None \/ m.away_score = None
    THEN FALSE
    ELSE IF m.favorite_team_id = m.home_team_id
         THEN m.home_score <= m.away_score
         ELSE m.away_score <= m.home_score

\* Match.is_favorite_losing
is_favorite_losing(m) ==
    IF ~Truthy(m.favorite_team_id) \/ m.home_score = None \/ m.away_score = None
    THEN FALSE
    ELSE IF m.favorite_team_id = m.home_team_id
         THEN m.home_score < m.away_score
         ELSE m.away_score < m.home_score

\* a faulty variant: the last minute of the window is left out
IsInMonitoringWindowOpenEnd(m) ==
    IF ~Truthy(m.current_minute) THEN FALSE
    ELSE MONITOR_MINUTE_START <= m.current_minute
         /\ m.current_minute < MONITOR_MINUTE_END

\* Match.is_in_monitoring_window
is_in_monitoring_window(m) ==
    IF ~Truthy(m.current_minute) THEN FALSE
    ELSE MONITOR_MINUTE_START <= m.current_minute
         /\ m.current_minute <= MONITOR_MINUTE_END

(***************************************************************************)
(* The unit of work of one orchestration call: the four tables as the      *)
(* session sees them, the Telegram sends made so far, and the call's log.  *)
(* tg[k] is the outcome of the k-th TelegramService.send_message.          *)
(***************************************************************************)
Tables(l, t, m, n) == [leagues |-> l, teams |-> t, matches |-> m, notifications |-> n]

\* base is the store as of the last commit; failed says that a flush raised
\* and left the transaction inactive; pending_bad says that rows were added
\* which the next flush will refuse; raised says that the call ended by an
\* exception that left it
Session(l, t, m, n) ==
    [leagues |-> l, teams |-> t, matches |-> m, notifications |-> n,
     base |-> Tables(l, t, m, n), failed |-> FALSE, pending_bad |-> FALSE,
     raised |-> FALSE,
     sends |-> 0, calls |-> <<>>, count |-> 0, updated |-> {}, selected |-> {},
     deleted |-> 0, commits |-> 0, queries |-> <<>>]

\* the session with its uncommitted work discarded
RolledBack(s) ==
    [s EXCEPT !.leagues = s.base.leagues, !.teams = s.base.teams,
              !.matches = s.base.matches, !.notifications = s.base.notifications,
              !.pending_bad = FALSE]

\* a flush that the store refuses: the transaction is rolled back and stays
\* inactive until Session.rollback()
FlushFailed(s) == [RolledBack(s) EXCEPT !.failed = TRUE]

\* whether a query (which flushes first) raises
QueryRaises(s) == s.failed \/ s.pending_bad

\* Session.commit(); commits counts the calls of it
Commit(s) ==
    IF s.failed THEN [s EXCEPT !.raised = TRUE, !.commits = @ + 1]
    ELSE IF s.pending_bad THEN [RolledBack(s) EXCEPT !.raised = TRUE, !.commits = @ + 1]
    ELSE [s EXCEPT !.base = Tables(s.leagues, s.teams, s.matches, s.notifications),
                   !.raised = FALSE, !.commits = @ + 1]

\* the outcome of one dispatch, appended to the log of the call: the match's
\* favorite odds and notification_sent flag as the dispatcher received them,
\* whether the notifier was invoked, what the dispatcher returned, the
\* Notification rows it added and the flag when it returned
Logged(s, r, m) ==
    <<[r[1] EXCEPT !.calls = Append(@,
            [id |-> m.id,
             odds |-> m.favorite_odds,
             notified |-> m.notification_sent,
             invoked |-> r[1].sends > s.sends,
             success |-> r[2],
             rows |-> r[1].notifications \ s.notifications,
             flag |-> ById(r[1].matches, m.id).notification_sent])],
      r[2]>>

\* MonitorService._send_alert: <<session after, success>>
_send_alert(s, m, tg) ==
    IF ~(/\ HasId(s.teams, m.home_team_id) /\ HasId(s.teams, m.away_team_id)
         /\ HasId(s.leagues, m.league_id) /\ HasId(s.teams, m.favorite_team_id))
    THEN <<s, FALSE>>
    ELSE IF m.favorite_odds = None
    THEN \* format(None, ".2f") raises TypeError, caught by the except clause
         <<s, FALSE>>
    ELSE LET success == tg[s.sends + 1]
             row == Notification(NextId(s.notifications), m.id, "Alert sent",
                                 IF success THEN "sent" ELSE "failed")
         IN <<[s EXCEPT !.sends = @ + 1, !.notifications = @ \cup {row}], success>>

\* a faulty variant: a failed delivery is recorded too, as _send_alert does
SendLowOddsAlertRecordsFailure(s, m, tg) ==
    IF ~(HasId(s.leagues, m.league_id) /\ HasId(s.teams, m.favorite_team_id))
    THEN <<s, FALSE>>
    ELSE IF m.favorite_odds = None
    THEN <<s, FALSE>>
    ELSE LET success == tg[s.sends + 1]
             row == Notification(NextId(s.notifications), m.id, "Low odds alert",
                                 IF success THEN "sent" ELSE "failed")
         IN <<[s EXCEPT !.sends = @ + 1,
                        !.matches = Put(@, [m EXCEPT !.notification_sent = success]),
                        !.notifications = @ \cup {row}],
              success>>

\* MonitorService._send_low_odds_alert: <<session after, success>>
_send_low_odds_alert(s, m, tg) ==
    IF ~(HasId(s.leagues, m.league_id) /\ HasId(s.teams, m.favorite_team_id))
    THEN <<s, FALSE>>
    ELSE IF m.favorite_odds = None
    THEN <<s, FALSE>>
    ELSE LET success == tg[s.sends + 1]
             row == Notification(NextId(s.notifications), m.id, "Low odds alert", "sent")
         IN IF success
            THEN <<[s EXCEPT !.sends = @ + 1,
                             !.matches = Put(@, [m EXCEPT !.notification_sent = TRUE]),
                             !.notifications = @ \cup {row}],
                   TRUE>>
            ELSE <<[s EXCEPT !.sends = @ + 1], FALSE>>

(***************************************************************************)
(* TheOddsAPIService.parse_live_score.                                     *)
(* score_data = [home_team, away_team, scores, completed, commence_time];  *)
(* scores is a list of [name, score], commence_time a datetime or None.    *)
(***************************************************************************)
\* the loop over scores: the last entry carrying the name wins
RECURSIVE ScoreOf(_, _, _, _)
ScoreOf(scores, i, side, score_data) ==
    IF i = 0 THEN None
    ELSE LET is_home == scores[i].name = score_data.home_team
             is_away == ~is_home /\ scores[i].name = score_data.away_team
         IN IF (side = "home" /\ is_home) \/ (side = "away" /\ is_away)
            THEN scores[i].score
            ELSE ScoreOf(scores, i - 1, side, score_data)

NoScore == [ok |-> FALSE]

parse_live_score(score_data) ==
    IF ~score_data.completed /\ score_data.scores # <<>>
    THEN LET home_score == ScoreOf(score_data.scores, Len(score_data.scores), "home", score_data)
             away_score == ScoreOf(score_data.scores, Len(score_data.scores), "away", score_data)
         IN [ok |-> TRUE,
             home_score |-> IF Truthy(home_score) THEN home_score ELSE 0,
             away_score |-> IF Truthy(away_score) THEN away_score ELSE 0,
             completed |-> score_data.completed,
             commence_time |-> score_data.commence_time]
    ELSE NoScore

\* int(x / 60) of a number of seconds: truncation toward zero
ElapsedMinutes(seconds) ==
    IF seconds >= 0 THEN seconds \div MinuteSeconds
    ELSE 0 - ((0 - seconds) \div MinuteSeconds)

(***************************************************************************)
(* MonitorService.monitor_live_matches.                                    *)
(* live_scores is the answer of get_all_live_scores; fb[i] is the answer   *)
(* of APIFootballService.get_fixture_by_id for the i-th selected match:    *)
(* [raised], or [raised, found] with the parsed fixture's status,          *)
(* current_minute, home_score and away_score when found.                   *)
(***************************************************************************)
\* Two executions can be in flight at once: a scheduler tick and an admin
\* request, each with its own session.  pc is the await an execution is
\* suspended at, ids the matches it selected, i the turn of its loop.
Runs == {1, 2}

NoRun ==
    [pc |-> "idle", s |-> Session({}, {}, {}, {}), ids |-> <<>>, i |-> 0,
     live_scores |-> <<>>, done |-> FALSE]

\* a faulty variant: a match selected by an execution in flight is left to it
SelectedNotInFlight(ms) ==
    {m \in ms : /\ m.should_monitor /\ ~m.notification_sent
                /\ \A q \in Runs : runs[q].pc = "idle" \/ m.id \notin runs[q].s.selected}

\* a faulty variant: matches already notified are selected too
SelectedAnySent(ms) == {m \in ms : m.should_monitor}

\* the filter of the query that selects the matches to monitor
Selected(ms) == {m \in ms : m.should_monitor /\ ~m.notification_sent}

\* the flexible comparison of team names with a live score record
NamesMatch(score, home_team, away_team) ==
    LET score_home == Lower(score.home_team)
        score_away == Lower(score.away_team)
        match_home == Lower(home_team.name)
        match_away == Lower(away_team.name)
    IN /\ IsSubstring(match_home, score_home) \/ IsSubstring(score_home, match_home)
       /\ IsSubstring(match_away, score_away) \/ IsSubstring(score_away, match_away)

\* index of the first live score record that matches, 0 if none
FindLive(live_scores, home_team, away_team) ==
    IF \E i \in 1..Len(live_scores) : NamesMatch(live_scores[i], home_team, away_team)
    THEN CHOOSE i \in 1..Len(live_scores) :
            /\ NamesMatch(live_scores[i], home_team, away_team)
            /\ \A j \in 1..(i - 1) : ~NamesMatch(live_scores[j], home_team, away_team)
    ELSE 0

\* a faulty variant: one condition is enough
ShouldAlertEither(m) == is_in_monitoring_window(m) \/ is_favorite_losing(m)

\* the conditions of an alert
ShouldAlert(m) == is_in_monitoring_window(m) /\ is_favorite_losing(m)

\* a faulty variant: the match is marked notified whatever the dispatch returned
CheckAndAlertAlwaysMarks(s, m, tg) ==
    LET s1 == [s EXCEPT !.matches = Put(@, m), !.updated = @ \cup {m.id}] IN
    IF is_in_monitoring_window(m) /\ is_favorite_losing(m)
    THEN LET r == Logged(s1, _send_alert(s1, m, tg), m) IN
         [r[1] EXCEPT !.matches = Put(@, [m EXCEPT !.notification_sent = TRUE,
                                                    !.notified_at = now]),
                      !.count = @ + 1]
    ELSE s1

\* the updated match is written back; if the conditions hold the alert is
\* dispatched and, on success, the match is marked notified
CheckAndAlert(s, m, tg) ==
    LET s1 == [s EXCEPT !.matches = Put(@, m), !.updated = @ \cup {m.id}] IN
    IF ShouldAlert(m)
    THEN LET r == Logged(s1, _send_alert(s1, m, tg), m) IN
         IF r[2]
         THEN [r[1] EXCEPT !.matches = Put(@, [m EXCEPT !.notification_sent = TRUE,
                                                        !.notified_at = now]),
                           !.count = @ + 1]
         ELSE r[1]
    ELSE s1

\* the session once get_fixture_by_id was called for the match
Queried(s, m) ==
    [s EXCEPT !.queries = Append(@, [api_id |-> m.api_id,
                                     real_api_id |-> m.api_id % PseudoIdMod])]

\* the branch taken when the live scores hold no record of the match.  The
\* function imports datetime further down, in the branch of a record that
\* matched, so the name is local to the function and still unbound here:
\* once the status, the minute and the scores are written, the assignment of
\* updated_at raises, the handler of the branch logs it, and the conditions
\* of an alert are not reached
FallbackOne(s, m, live_scores, answer, tg) ==
    IF live_scores # <<>> THEN s
    ELSE IF answer.raised \/ ~answer.found THEN Queried(s, m)
    ELSE [Queried(s, m) EXCEPT
            !.matches = Put(@,
                [m EXCEPT !.status = answer.status,
                          !.current_minute = answer.current_minute,
                          !.home_score = IF Truthy(answer.home_score) THEN answer.home_score ELSE 0,
                          !.away_score = IF Truthy(answer.away_score) THEN answer.away_score ELSE 0]),
            !.updated = @ \cup {m.id}]

\* a faulty variant: the estimated minute is not capped
LiveOneUncapped(s, m, live_match, tg) ==
    LET parsed_score == parse_live_score(live_match) IN
    IF ~parsed_score.ok THEN s
    ELSE LET elapsed_minutes == ElapsedMinutes(now - parsed_score.commence_time)
             minute == IF parsed_score.commence_time = None THEN m.current_minute
                       ELSE IF elapsed_minutes > 0 THEN elapsed_minutes
                       ELSE None
         IN CheckAndAlert(s,
                [m EXCEPT !.home_score = parsed_score.home_score,
                          !.away_score = parsed_score.away_score,
                          !.status = IF ~parsed_score.completed THEN "LIVE" ELSE "FT",
                          !.current_minute = minute],
                tg)

\* the branch taken when a live score record matches
LiveOne(s, m, live_match, tg) ==
    LET parsed_score == parse_live_score(live_match) IN
    IF ~parsed_score.ok THEN s
    ELSE LET elapsed_minutes == ElapsedMinutes(now - parsed_score.commence_time)
             minute == IF parsed_score.commence_time = None THEN m.current_minute
                       ELSE IF elapsed_minutes > 0 THEN Min2(elapsed_minutes, MinuteCap)
                       ELSE None
         IN CheckAndAlert(s,
                [m EXCEPT !.home_score = parsed_score.home_score,
                          !.away_score = parsed_score.away_score,
                          !.status = IF ~parsed_score.completed THEN "LIVE" ELSE "FT",
                          !.current_minute = minute],
                tg)

\* one turn of the loop over the selected matches
MonitorOne(s, m, live_scores, answer, tg) ==
    IF ~HasId(s.teams, m.home_team_id) \/ ~HasId(s.teams, m.away_team_id) THEN s
    ELSE LET k == FindLive(live_scores, ById(s.teams, m.home_team_id),
                           ById(s.teams, m.away_team_id))
         IN IF k = 0 THEN FallbackOne(s, m, live_scores, answer, tg)
            ELSE LiveOne(s, m, live_scores[k], tg)

RECURSIVE MonitorLoop(_, _, _, _, _, _)
MonitorLoop(s, ids, i, live_scores, fb, tg) ==
    IF i > Len(ids) THEN s
    ELSE MonitorLoop(MonitorOne(s, ById(s.matches, ids[i]), live_scores, fb[i], tg),
                     ids, i + 1, live_scores, fb, tg)

\* the session at the commit that ends monitor_live_matches
monitor_live_matches(s, live_scores, fb, tg) ==
    LET sel == Selected(s.matches) IN
    IF sel = {} THEN s
    ELSE Commit(MonitorLoop([s EXCEPT !.selected = {m.id : m \in sel}],
                            SortedIds(sel), 1, live_scores, fb, tg))

(***************************************************************************)
(* monitor_live_matches between its suspension points: the awaits of       *)
(* get_all_live_scores, get_fixture_by_id and, inside _send_alert, of      *)
(* send_message.  What lies between two awaits runs without interruption.  *)
(***************************************************************************)
\* every send of the call has the same outcome
Always(outcome) == [k \in 1..MaxMatches |-> outcome]

\* the select at the head of the function, up to the first await
Begin(s) ==
    LET sel == Selected(s.matches) IN
    IF sel = {} THEN [NoRun EXCEPT !.s = s, !.done = TRUE]
    ELSE [NoRun EXCEPT !.pc = "sweep", !.s = [s EXCEPT !.selected = {m.id : m \in sel}],
                       !.ids = SortedIds(sel), !.i = 1]

\* the match of the current turn of the loop, as the session holds it
Current(r) == ById(r.s.matches, r.ids[r.i])

\* the live score record of the current match
CurrentLive(r) ==
    r.live_scores[FindLive(r.live_scores, ById(r.s.teams, Current(r).home_team_id),
                           ById(r.s.teams, Current(r).away_team_id))]

\* the loop runs on from turn i until it waits for the fixture provider or
\* for the notifier, or until it is through
RECURSIVE Advance(_)
Advance(r) ==
    IF r.i > Len(r.ids) THEN [r EXCEPT !.pc = "end"]
    ELSE LET m == Current(r) IN
         IF ~HasId(r.s.teams, m.home_team_id) \/ ~HasId(r.s.teams, m.away_team_id)
         THEN Advance([r EXCEPT !.i = @ + 1])
         ELSE IF FindLive(r.live_scores, ById(r.s.teams, m.home_team_id),
                          ById(r.s.teams, m.away_team_id)) = 0
         THEN IF r.live_scores = <<>> THEN [r EXCEPT !.pc = "fixture"]
              ELSE Advance([r EXCEPT !.i = @ + 1])
         ELSE LET through == LiveOne(r.s, m, CurrentLive(r), Always(TRUE)) IN
              IF through.sends > r.s.sends THEN [r EXCEPT !.pc = "send"]
              ELSE Advance([r EXCEPT !.s = through, !.i = @ + 1])

\* get_all_live_scores returned, or raised (live_scores stays empty)
Swept(r, live_scores) == Advance([r EXCEPT !.live_scores = live_scores])

\* get_fixture_by_id returned or raised
Answered(r, answer) ==
    Advance([r EXCEPT !.s = FallbackOne(r.s, Current(r), r.live_scores, answer, Always(TRUE)),
                      !.i = @ + 1])

\* send_message returned
Sent(r, success) ==
    Advance([r EXCEPT !.s = LiveOne(r.s, Current(r), CurrentLive(r), Always(success)),
                      !.i = @ + 1])

\* The commit of an execution next to another one.  The store does not
\* lock: the UPDATE of a row writes the columns the session changed since
\* it loaded the row, whatever another session wrote to it meanwhile.
Written(stored, loaded, mine) ==
    [f \in DOMAIN stored |-> IF mine[f] # loaded[f] THEN mine[f] ELSE stored[f]]

FlushedMatches(stored, s) ==
    {IF HasId(s.matches, x.id) /\ HasId(s.base.matches, x.id)
     THEN Written(x, ById(s.base.matches, x.id), ById(s.matches, x.id))
     ELSE x : x \in stored}

\* the INSERT of the session's new rows: each gets the next id of the table
RECURSIVE Inserted(_, _, _, _)
Inserted(stored, new, ids, i) ==
    IF i > Len(ids) THEN stored
    ELSE Inserted(stored \cup {[ById(new, ids[i]) EXCEPT !.id = NextId(stored)]},
                  new, ids, i + 1)

FlushedNotifications(stored, s) ==
    Inserted(stored, s.notifications \ s.base.notifications,
             SortedIds(s.notifications \ s.base.notifications), 1)

(***************************************************************************)
(* MonitorService.fetch_and_store_odds.                                    *)
(* An odds record is [home_team, away_team, league_key, commence_time,     *)
(* bookmakers].                                                            *)
(***************************************************************************)
Space == 9
Dot == 7
SuffixFC == <<Space, 16, 13>>
SuffixFdotC == <<Space, 16, Dot, 13, Dot>>

\* whether pat occurs in s at position i
OccursAt(s, pat, i) ==
    i + Len(pat) - 1 <= Len(s) /\ \A k \in 1..Len(pat) : s[i + k - 1] = pat[k]

\* s.replace(pat, "")
RECURSIVE RemoveAll(_, _, _)
RemoveAll(s, pat, i) ==
    IF i > Len(s) THEN <<>>
    ELSE IF OccursAt(s, pat, i) THEN RemoveAll(s, pat, i + Len(pat))
    ELSE <<s[i]>> \o RemoveAll(s, pat, i + 1)

\* s.strip()
RECURSIVE Strip(_)
Strip(s) ==
    IF s = <<>> THEN s
    ELSE IF Head(s) = Space THEN Strip(Tail(s))
    ELSE IF s[Len(s)] = Space THEN Strip(SubSeq(s, 1, Len(s) - 1))
    ELSE s

\* name.replace(" FC", "").replace(" F.C.", "").strip()
Normalize(name) == Strip(RemoveAll(RemoveAll(name, SuffixFC, 1), SuffixFdotC, 1))

\* .first() of a query: the row of least id, as a set of at most one row
First(rows) == {r \in rows : \A x \in rows : r.id <= x.id}

\* exact name, then normalised name, then case-insensitive containment
FindTeam(ts, name) ==
    LET norm == Normalize(name)
        exact == First({t \in ts : t.name = name})
        normed == First({t \in ts : t.name = norm})
        like == First({t \in ts : IsSubstring(Lower(norm), Lower(t.name))})
    IN IF exact # {} THEN exact ELSE IF normed # {} THEN normed ELSE like

\* a faulty variant: the favorite is recorded by its provider id
StoreOddsFavoriteByProviderId(m, parsed_odds, home_team, away_team) ==
    [m EXCEPT !.home_odds = parsed_odds.home_odds,
              !.draw_odds = parsed_odds.draw_odds,
              !.away_odds = parsed_odds.away_odds,
              !.favorite_odds = parsed_odds.favorite_odds,
              !.favorite_team_id =
                  IF parsed_odds.favorite_team = "home"
                  THEN home_team.api_id ELSE away_team.api_id]

\* the odds stored on the match and its favourite team
StoreOdds(m, parsed_odds, home_team, away_team) ==
    [m EXCEPT !.home_odds = parsed_odds.home_odds,
              !.draw_odds = parsed_odds.draw_odds,
              !.away_odds = parsed_odds.away_odds,
              !.favorite_odds = parsed_odds.favorite_odds,
              !.favorite_team_id =
                  IF parsed_odds.favorite_team = "home" THEN home_team.id ELSE away_team.id]

\* match.favorite_odds and match.favorite_odds < FAVORITE_ODDS_THRESHOLD
BelowThreshold(m) == Truthy(m.favorite_odds) /\ m.favorite_odds < FAVORITE_ODDS_THRESHOLD

\* a faulty variant: the alert is dispatched again for a notified match
AlertLowOddsAgain(s, m, tg) == Logged(s, _send_low_odds_alert(s, m, tg), m)[1]

\* the low-odds alert of a match not yet notified
AlertLowOdds(s, m, tg) ==
    IF m.notification_sent THEN s
    ELSE Logged(s, _send_low_odds_alert(s, m, tg), m)[1]

\* the check of the stored favourite odds against the threshold
CheckThreshold(s, m, tg) ==
    IF BelowThreshold(m)
    THEN AlertLowOdds([s EXCEPT !.matches = Put(@, [m EXCEPT !.should_monitor = TRUE]),
                                !.updated = @ \cup {m.id}],
                      [m EXCEPT !.should_monitor = TRUE], tg)
    ELSE [s EXCEPT !.matches = Put(@, m), !.updated = @ \cup {m.id}]

\* a faulty variant: the match is looked up whatever its status
OddsOfTeamsAnyStatus(s, odds_match, home_team, away_team, tg) ==
    LET found == First({m \in s.matches : /\ m.home_team_id = home_team.id
                                          /\ m.away_team_id = away_team.id})
        parsed_odds == parse_odds(odds_match)
    IN IF found = {} THEN s
       ELSE IF ~parsed_odds.ok THEN s
       ELSE [CheckThreshold(s, StoreOdds(CHOOSE m \in found : TRUE, parsed_odds,
                                         home_team, away_team), tg)
                EXCEPT !.count = @ + 1]

\* the record's match, once both of its teams are found
OddsOfTeams(s, odds_match, home_team, away_team, tg) ==
    LET found == First({m \in s.matches : /\ m.home_team_id = home_team.id
                                          /\ m.away_team_id = away_team.id
                                          /\ m.status = "NS"})
        parsed_odds == parse_odds(odds_match)
    IN IF found = {} THEN s
       ELSE IF ~parsed_odds.ok THEN s
       ELSE [CheckThreshold(s, StoreOdds(CHOOSE m \in found : TRUE, parsed_odds,
                                         home_team, away_team), tg)
                EXCEPT !.count = @ + 1]

\* the two teams of the record, as sets of at most one row
OddsOfRows(s, odds_match, home_rows, away_rows, tg) ==
    IF home_rows = {} \/ away_rows = {} THEN s
    ELSE OddsOfTeams(s, odds_match, CHOOSE t \in home_rows : TRUE,
                     CHOOSE t \in away_rows : TRUE, tg)

\* one turn of the loop over the odds records
OddsOne(s, odds_match, tg) ==
    OddsOfRows(s, odds_match, FindTeam(s.teams, Strip(odds_match.home_team)),
               FindTeam(s.teams, Strip(odds_match.away_team)), tg)

RECURSIVE OddsLoop(_, _, _, _)
OddsLoop(s, all_odds, i, tg) ==
    IF i > Len(all_odds) THEN s
    ELSE OddsLoop(OddsOne(s, all_odds[i], tg), all_odds, i + 1, tg)

\* the session at the commit that ends fetch_and_store_odds
fetch_and_store_odds(s, all_odds, tg) ==
    IF all_odds = <<>> THEN s ELSE Commit(OddsLoop(s, all_odds, 1, tg))

(***************************************************************************)
(* Dates.                                                                  *)
(***************************************************************************)
\* datetime.combine(d.date(), datetime.min.time())
TodayStart(d) == (d \div DaySeconds) * DaySeconds

\* d.replace(hour=h, minute=mi): seconds are kept
ReplaceHM(d, h, mi) ==
    TodayStart(d) + h * HourSeconds + mi * MinuteSeconds + (d % MinuteSeconds)

\* now_utc <= t <= now_utc + timedelta(hours=20)
InWindow(t) == now <= t /\ t <= now + WindowHours * HourSeconds

(***************************************************************************)
(* hash(key) % 1000000: Python salts the hash of a string per process.     *)
(***************************************************************************)
SaltStride == 7919

RECURSIVE Poly(_, _)
Poly(key, i) ==
    IF i = 0 THEN 0 ELSE (Poly(key, i - 1) * 31 + key[i]) % PseudoIdMod

Hash(key) == (Poly(key, Len(key)) + salt * SaltStride) % PseudoIdMod

(***************************************************************************)
(* MonitorService._cleanup_old_matches.                                    *)
(***************************************************************************)
\* a faulty variant: only matches that never started are deleted
CleanupOnlyNotStarted(s) ==
    LET today_start == TodayStart(now)
        old == {m \in s.matches : m.match_date < today_start /\ m.status = "NS"}
        s1 == [s EXCEPT !.matches = @ \ old, !.deleted = Cardinality(old)]
    IN IF Cardinality(old) > 0 THEN Commit(s1) ELSE s1

_cleanup_old_matches(s) ==
    LET today_start == TodayStart(now)
        old == {m \in s.matches : m.match_date < today_start}
        s1 == [s EXCEPT !.matches = @ \ old, !.deleted = Cardinality(old)]
    IN IF Cardinality(old) > 0 THEN Commit(s1) ELSE s1

(***************************************************************************)
(* MonitorService._store_fixture_from_odds, with send_alert = False.       *)
(* api_football_fixtures is the dict of the caller, as the list of its     *)
(* items [key, api_id] in insertion order.                                 *)
(***************************************************************************)
Underscore == 8

\* d[key] = api_id
DictPut(d, key, api_id) ==
    IF \E i \in 1..Len(d) : d[i].key = key
    THEN [i \in 1..Len(d) |-> IF d[i].key = key THEN [key |-> key, api_id |-> api_id] ELSE d[i]]
    ELSE Append(d, [key |-> key, api_id |-> api_id])

\* the exact lookup, then the first item whose key contains both names; None if none
RealApiId(d, home_team_name, away_team_name) ==
    LET lookup_key == Lower(home_team_name) \o <<Underscore>> \o Lower(away_team_name)
        fuzzy(i) == /\ IsSubstring(Lower(home_team_name), d[i].key)
                    /\ IsSubstring(Lower(away_team_name), d[i].key)
    IN IF \E i \in 1..Len(d) : d[i].key = lookup_key
       THEN d[CHOOSE i \in 1..Len(d) : d[i].key = lookup_key].api_id
       ELSE IF \E i \in 1..Len(d) : fuzzy(i)
            THEN d[CHOOSE i \in 1..Len(d) : fuzzy(i) /\ \A j \in 1..(i - 1) : ~fuzzy(j)].api_id
            ELSE None

\* the session after an exception raised by a query or a flush
AfterRaise(s) == IF s.pending_bad THEN FlushFailed(s) ELSE s

\* get or create the League named league_key: <<session, ok>>
LeagueByName(s, league_key) ==
    IF \E l \in s.leagues : l.name = league_key THEN <<s, TRUE>>
    ELSE IF \E l \in s.leagues : l.api_id = Hash(league_key)
         THEN <<FlushFailed(s), FALSE>>
         ELSE <<[s EXCEPT !.leagues = @ \cup
                    {League(NextId(s.leagues), Hash(league_key), league_key)}], TRUE>>

\* get or create the Team named name: <<session, ok>>
TeamByName(s, name) ==
    IF \E t \in s.teams : t.name = name THEN <<s, TRUE>>
    ELSE IF \E t \in s.teams : t.api_id = Hash(name)
         THEN <<FlushFailed(s), FALSE>>
         ELSE <<[s EXCEPT !.teams = @ \cup {Team(NextId(s.teams), Hash(name), name)}], TRUE>>

\* the query that looks for the stored match of the same pair on the same day
SameDayMatch(ms, home_id, away_id, match_date_obj) ==
    First({m \in ms : /\ m.home_team_id = home_id
                      /\ m.away_team_id = away_id
                      /\ m.match_date >= ReplaceHM(match_date_obj, 0, 0)
                      /\ m.match_date < ReplaceHM(match_date_obj, 23, 59)})

\* should_monitor of a match created from parsed odds
MonitorFromOdds(parsed_odds) ==
    IF parsed_odds.ok THEN parsed_odds.favorite_odds < FAVORITE_ODDS_THRESHOLD ELSE TRUE

\* the row inserted for an odds record, or the stored row with its odds refreshed
StoreMatch(s, odds_match, home_team, away_team, league, real_api_id) ==
    LET parsed_odds == parse_odds(odds_match)
        match_date_obj == odds_match.commence_time
        found == SameDayMatch(s.matches, home_team.id, away_team.id, match_date_obj)
    IN IF found = {}
       THEN LET api_id == IF Truthy(real_api_id) THEN real_api_id
                          ELSE Hash(Strip(odds_match.home_team) \o Strip(odds_match.away_team)
                                    \o <<odds_match.commence_time>>)
                row == Match(NextId(s.matches), api_id, league.id, home_team.id,
                             away_team.id, match_date_obj, "NS",
                             IF parsed_odds.ok THEN parsed_odds.home_odds ELSE None,
                             IF parsed_odds.ok THEN parsed_odds.draw_odds ELSE None,
                             IF parsed_odds.ok THEN parsed_odds.away_odds ELSE None,
                             IF parsed_odds.ok
                             THEN IF parsed_odds.favorite_team = "home"
                                  THEN home_team.id ELSE away_team.id
                             ELSE home_team.id,
                             IF parsed_odds.ok THEN parsed_odds.favorite_odds ELSE None,
                             MonitorFromOdds(parsed_odds))
            IN IF \E m \in s.matches : m.api_id = api_id
               THEN <<FlushFailed(s), FALSE>>
               ELSE <<[s EXCEPT !.matches = @ \cup {row}], TRUE>>
       ELSE LET m == CHOOSE x \in found : TRUE IN
            IF parsed_odds.ok
            THEN <<[s EXCEPT !.matches = Put(@,
                        [m EXCEPT !.home_odds = parsed_odds.home_odds,
                                  !.draw_odds = parsed_odds.draw_odds,
                                  !.away_odds = parsed_odds.away_odds,
                                  !.favorite_odds = parsed_odds.favorite_odds])], TRUE>>
            ELSE <<s, TRUE>>

_store_fixture_from_odds(s, odds_match, api_football_fixtures) ==
    LET home_team_name == Strip(odds_match.home_team)
        away_team_name == Strip(odds_match.away_team)
    IN IF QueryRaises(s) THEN <<AfterRaise(s), FALSE>>
       ELSE LET r1 == LeagueByName(s, odds_match.league_key) IN
       IF ~r1[2] THEN r1
       ELSE LET r2 == TeamByName(r1[1], home_team_name) IN
       IF ~r2[2] THEN r2
       ELSE LET r3 == TeamByName(r2[1], away_team_name) IN
       IF ~r3[2] THEN r3
       ELSE LET s3 == r3[1]
                league == CHOOSE l \in First({l \in s3.leagues : l.name = odds_match.league_key}) : TRUE
                home_team == CHOOSE t \in First({t \in s3.teams : t.name = home_team_name}) : TRUE
                away_team == CHOOSE t \in First({t \in s3.teams : t.name = away_team_name}) : TRUE
            IN StoreMatch(s3, odds_match, home_team, away_team, league,
                          RealApiId(api_football_fixtures, home_team_name, away_team_name))

(***************************************************************************)
(* MonitorService._store_fixture_from_api_football.                        *)
(* A parsed fixture is [api_id, match_date, status, home_team, away_team,  *)
(* league], its teams and league [api_id, name].                           *)
(***************************************************************************)
\* get or create by provider id: the table with the row in it
WithLeague(ls, data) ==
    IF \E l \in ls : l.api_id = data.api_id THEN ls
    ELSE ls \cup {League(NextId(ls), data.api_id, data.name)}

WithTeam(ts, data) ==
    IF \E t \in ts : t.api_id = data.api_id THEN ts
    ELSE ts \cup {Team(NextId(ts), data.api_id, data.name)}

\* the two rows of a fixture: the home team as favorite, then the away team
\* under the provider id offset by 1,000,000
TwoRows(ms, parsed_fixture, league, home_team, away_team) ==
    {Match(NextId(ms), parsed_fixture.api_id, league.id, home_team.id, away_team.id,
           parsed_fixture.match_date, parsed_fixture.status,
           None, None, None, home_team.id, None, TRUE),
     Match(NextId(ms) + 1, parsed_fixture.api_id + AwayOffset, league.id, home_team.id,
           away_team.id, parsed_fixture.match_date, parsed_fixture.status,
           None, None, None, away_team.id, None, TRUE)}

_store_fixture_from_api_football(s, parsed_fixture) ==
    IF QueryRaises(s) THEN <<AfterRaise(s), FALSE>>
    ELSE LET ls == WithLeague(s.leagues, parsed_fixture.league)
             ts1 == WithTeam(s.teams, parsed_fixture.home_team)
             ts == WithTeam(ts1, parsed_fixture.away_team)
             league == CHOOSE l \in First({l \in ls : l.api_id = parsed_fixture.league.api_id}) : TRUE
             home_team == CHOOSE t \in First({t \in ts : t.api_id = parsed_fixture.home_team.api_id}) : TRUE
             away_team == CHOOSE t \in First({t \in ts : t.api_id = parsed_fixture.away_team.api_id}) : TRUE
             s1 == [s EXCEPT !.leagues = ls, !.teams = ts]
         IN IF \E m \in s.matches : m.api_id = parsed_fixture.api_id
            THEN <<s1, FALSE>>
            ELSE IF \E m \in s.matches : m.api_id = parsed_fixture.api_id + AwayOffset
                 THEN \* both rows wait for the next flush, which the store refuses
                      <<[s1 EXCEPT !.pending_bad = TRUE], TRUE>>
                 ELSE <<[s1 EXCEPT !.matches = @ \cup
                            TwoRows(s.matches, parsed_fixture, league, home_team, away_team)],
                        TRUE>>

(***************************************************************************)
(* MonitorService.fetch_and_store_fixtures.                                *)
(* all_odds is the answer of get_odds_for_soccer; api_fixtures the parsed  *)
(* fixtures the fixture provider holds; api_down says that its requests    *)
(* raise.                                                                  *)
(***************************************************************************)
\* get_fixtures_by_date for today, then for tomorrow
FixturesOfTwoDays(api_fixtures, api_down) ==
    IF api_down THEN <<>>
    ELSE SelectSeq(api_fixtures, LAMBDA f : TodayStart(f.match_date) = TodayStart(now))
         \o SelectSeq(api_fixtures,
                      LAMBDA f : TodayStart(f.match_date) = TodayStart(now) + DaySeconds)

\* the odds records that start within the next 20 hours
TodayMatches(all_odds) ==
    SelectSeq(all_odds, LAMBDA o : o.commence_time # None /\ InWindow(o.commence_time))

\* the index of provider ids by team names
RECURSIVE IndexOf(_, _)
IndexOf(fixtures, i) ==
    IF i = 0 THEN <<>>
    ELSE DictPut(IndexOf(fixtures, i - 1),
                 Lower(fixtures[i].home_team.name) \o <<Underscore>>
                    \o Lower(fixtures[i].away_team.name),
                 fixtures[i].api_id)

\* count += 1 if the store succeeded
Counted(r) == IF r[2] THEN [r[1] EXCEPT !.count = @ + 1] ELSE r[1]

RECURSIVE FallbackLoop(_, _, _)
FallbackLoop(s, fixtures, i) ==
    IF i > Len(fixtures) THEN s
    ELSE LET f == fixtures[i] IN
         FallbackLoop(IF f.league.api_id \notin LEAGUES_TO_MONITOR THEN s
                      ELSE IF f.match_date # None /\ InWindow(f.match_date)
                           THEN Counted(_store_fixture_from_api_football(s, f))
                           ELSE s,
                      fixtures, i + 1)

RECURSIVE StoreLoop(_, _, _, _)
StoreLoop(s, today_matches, i, index) ==
    IF i > Len(today_matches) THEN s
    ELSE StoreLoop(Counted(_store_fixture_from_odds(s, today_matches[i], index)),
                   today_matches, i + 1, index)

\* the session when fetch_and_store_fixtures returns or raises
fetch_and_store_fixtures(s, all_odds, api_fixtures, api_down) ==
    LET s1 == _cleanup_old_matches(s)
        today_matches == TodayMatches(all_odds)
        fixtures == FixturesOfTwoDays(api_fixtures, api_down)
    IN IF today_matches = <<>>
       THEN \* the commit of the fallback branch; if it raises, the outer
            \* except clause is followed by the commit at the end
            LET s2 == Commit(FallbackLoop(s1, fixtures, 1)) IN
            IF s2.raised THEN Commit(s2) ELSE s2
       ELSE Commit(StoreLoop(s1, today_matches, 1, IndexOf(fixtures, Len(fixtures))))

(***************************************************************************)
(* POST /admin/test-alert: the rows of an earlier test are deleted, a test *)
(* league, two test teams and a live test match are created, and the       *)
(* monitoring pass runs if the match is due.                               *)
(***************************************************************************)
TestLeagueName == <<13, 8, 13>>

\* step 0: the bulk deletes of the rows with a test provider id, committed
ClearTestData(s) ==
    Commit([s EXCEPT !.matches = {m \in @ : m.api_id < TestIdFloor},
                     !.teams = {x \in @ : x.api_id < TestIdFloor},
                     !.leagues = {l \in @ : l.api_id < TestIdFloor}])

\* step 3: the test match
TestMatch(id, league_id, home_id, away_id, home_score, away_score, current_minute, favorite_is_home, favorite_odds) ==
    [Match(id, TestMatchId, league_id, home_id, away_id, now, "LIVE",
           IF ~favorite_is_home THEN TestOtherOdds ELSE favorite_odds,
           TestDrawOdds,
           IF favorite_is_home THEN TestOtherOdds ELSE favorite_odds,
           IF favorite_is_home THEN home_id ELSE away_id,
           favorite_odds, TRUE)
        EXCEPT !.home_score = home_score, !.away_score = away_score,
               !.current_minute = current_minute]

\* steps 1 to 3, committed: <<session, test match>>
CreateTestData(s, home_team, away_team, home_score, away_score, current_minute, favorite_is_home, favorite_odds) ==
    LET test_league == League(NextId(s.leagues), TestLeagueId, TestLeagueName)
        home == Team(NextId(s.teams), TestHomeId, home_team)
        away == Team(NextId(s.teams) + 1, TestAwayId, away_team)
        test_match == TestMatch(NextId(s.matches), test_league.id, home.id, away.id,
                                home_score, away_score, current_minute,
                                favorite_is_home, favorite_odds)
    IN <<Commit([s EXCEPT !.leagues = @ \cup {test_league},
                          !.teams = @ \cup {home, away},
                          !.matches = @ \cup {test_match}]),
         test_match>>

\* steps 4 and 5: the monitoring pass if the test match is due
RunIfDue(r, live_scores, fb, tg) ==
    IF is_in_monitoring_window(r[2]) /\ is_favorite_losing(r[2])
    THEN monitor_live_matches(r[1], live_scores, fb, tg)
    ELSE r[1]

test_alert(s, home_team, away_team, home_score, away_score, current_minute, favorite_is_home, favorite_odds, live_scores, fb, tg) ==
    RunIfDue(CreateTestData(ClearTestData(s), home_team, away_team, home_score, away_score,
                            current_minute, favorite_is_home, favorite_odds),
             live_scores, fb, tg)

(***************************************************************************)
(* What the environment can hand to the service.                           *)
(***************************************************************************)
NameA == <<11>>
NameB == <<12>>
LeagueKey == <<5>>

\* sequences over S of length at most n
SeqsUpTo(S, n) == UNION {[1..k -> S] : k \in 0..n}

\* the outcomes a bookmaker quotes: a price of None is an outcome not quoted
Outcomes(home, away, h, a, d) ==
    (IF h = None THEN <<>> ELSE <<[name |-> home, price |-> h]>>)
    \o (IF a = None THEN <<>> ELSE <<[name |-> away, price |-> a]>>)
    \o (IF d = None THEN <<>> ELSE <<[name |-> DrawName, price |-> d]>>)

Bookmaker(home, away, h, a, d) ==
    [markets |-> <<[key |-> H2H, outcomes |-> Outcomes(home, away, h, a, d)]>>]

\* no bookmaker; favorite home at 1.30; favorite away at 1.40
LowHome == <<Bookmaker(NameA, NameB, 130, 300, 350)>>
HighAway == <<Bookmaker(NameA, NameB, 300, 140, None)>>
BookChoices == {<<>>, LowHome, HighAway}

\* kick-off in 4 hours, in 15 h 59 min (23:59:00 when it is 08:00), in 21 hours
\* (beyond the look-ahead window)
Afternoon == 4 * HourSeconds
LastMinute == 16 * HourSeconds - MinuteSeconds
TooFar == 21 * HourSeconds

\* the odds feed's records of the fixture A v B
OddsRecords(offsets, books) ==
    {[home_team |-> NameA, away_team |-> NameB, league_key |-> LeagueKey,
      commence_time |-> now + off, bookmakers |-> b] :
        off \in offsets, b \in books}

\* the fixture provider knows the fixture A v B, in a monitored league or not
ApiFixture(league_id) ==
    [api_id |-> 7, match_date |-> now + Afternoon, status |-> "NS",
     home_team |-> [api_id |-> 1, name |-> NameA],
     away_team |-> [api_id |-> 2, name |-> NameB],
     league |-> [api_id |-> league_id, name |-> <<6>>]]

\* what one run of fetch_and_store_fixtures can be answered: the odds feed, the
\* fixture provider's list, whether the fixture provider is down
Feeds(offsets, books, lists) ==
    {<<all_odds, api_fixtures, FALSE>> :
        all_odds \in SeqsUpTo(OddsRecords(offsets, books), MaxFeed), api_fixtures \in lists}
    \cup {<<all_odds, <<>>, TRUE>> :
            all_odds \in SeqsUpTo(OddsRecords(offsets, books), MaxFeed)}

\* live score records: no scores yet, completed, or running at minute e
LiveRecord(scores, completed, e) ==
    [home_team |-> NameA, away_team |-> NameB, scores |-> scores,
     completed |-> completed, commence_time |-> now - e * MinuteSeconds]

Scores(h, a) == <<[name |-> NameA, score |-> h], [name |-> NameB, score |-> a]>>

LiveRecords ==
    {LiveRecord(<<>>, FALSE, 60), LiveRecord(Scores(0, 2), TRUE, 60)}
    \cup {LiveRecord(Scores(sc[1], sc[2]), FALSE, e) :
            sc \in {<<0, 2>>, <<2, 0>>}, e \in {54, 60}}

\* answers of get_fixture_by_id
FixtureAnswers ==
    {[raised |-> TRUE, found |-> FALSE],
     [raised |-> FALSE, found |-> FALSE]}
    \cup {[raised |-> FALSE, found |-> TRUE, status |-> "2H", current_minute |-> 60,
           home_score |-> sc[1], away_score |-> sc[2]] : sc \in {<<0, 2>>, <<2, 0>>}}

\* outcomes of the sends of one call
TelegramOutcomes == [1..MaxMatches -> BOOLEAN]

(***************************************************************************)
(* The items routes.  A request body is [set, name, description, price,    *)
(* is_active]: set holds the names of the fields the body carries ("extra" *)
(* for a field the schema does not know), the other fields their values.   *)
(* A string is a sequence of character codes, null the sequence Null;      *)
(* a price is in hundredths, null the value None.                          *)
(***************************************************************************)
Null == <<None>>

\* Field(min_length=..., max_length=...) of a string that may be null
LengthWithin(x, lo, hi) == x = Null \/ (lo <= Len(x) /\ Len(x) <= hi)

\* a faulty variant: a price of zero is let through
ItemCreateValidFromZero(item_data) ==
    /\ "name" \in item_data.set /\ item_data.name # Null
    /\ LengthWithin(item_data.name, NameMinLength, NameMaxLength)
    /\ "description" \in item_data.set =>
            LengthWithin(item_data.description, 0, DescriptionMaxLength)
    /\ "price" \in item_data.set /\ item_data.price # None /\ item_data.price >= 0

\* ItemCreate: name and price are required and not null, description may be null
ItemCreateValid(item_data) ==
    /\ "name" \in item_data.set /\ item_data.name # Null
    /\ LengthWithin(item_data.name, NameMinLength, NameMaxLength)
    /\ "description" \in item_data.set =>
            LengthWithin(item_data.description, 0, DescriptionMaxLength)
    /\ "price" \in item_data.set /\ item_data.price # None /\ item_data.price > 0

\* ItemUpdate: every field is optional and may be null, unknown fields are forbidden
ItemUpdateValid(item_data) ==
    /\ "extra" \notin item_data.set
    /\ "name" \in item_data.set =>
            LengthWithin(item_data.name, NameMinLength, NameMaxLength)
    /\ "description" \in item_data.set =>
            LengthWithin(item_data.description, 0, DescriptionMaxLength)
    /\ "price" \in item_data.set => (item_data.price = None \/ item_data.price > 0)

\* Item(id=id, **item_data.model_dump()): fields not sent take their defaults
NewItem(id, item_data) ==
    [id |-> id,
     name |-> item_data.name,
     description |-> IF "description" \in item_data.set THEN item_data.description ELSE Null,
     price |-> item_data.price,
     is_active |-> IF "is_active" \in item_data.set THEN item_data.is_active ELSE TRUE]

\* d[k] = v and del d[k]
DictSet(d, k, v) == [i \in DOMAIN d \cup {k} |-> IF i = k THEN v ELSE d[i]]
DictDel(d, k) == [i \in DOMAIN d \ {k} |-> d[i]]

\* a faulty variant: the new item takes the first id above the ids in the map
CreateItemAboveStored(db, id, item_data) ==
    LET free == CHOOSE k \in 1..(id + 1) :
                    (k = 1 \/ k - 1 \in DOMAIN db) /\ \A j \in DOMAIN db : j < k
    IN [db |-> DictSet(db, free, NewItem(free, item_data)), next_id |-> id + 1,
        item |-> NewItem(free, item_data)]

\* a faulty variant: the counter is not advanced, so the next create takes
\* the same id and overwrites the item
CreateItemLosingUpdate(db, id, item_data) ==
    [db |-> DictSet(db, id, NewItem(id, item_data)), next_id |-> id,
     item |-> NewItem(id, item_data)]

\* create_item: the map, the counter and the item returned
create_item(db, id, item_data) ==
    [db |-> DictSet(db, id, NewItem(id, item_data)), next_id |-> id + 1,
     item |-> NewItem(id, item_data)]

\* a faulty variant: every field is overwritten, those not sent by null
UpdatedItemResettingUnset(stored_item, item_data) ==
    [id |-> stored_item.id,
     name |-> IF "name" \in item_data.set THEN item_data.name ELSE Null,
     description |-> IF "description" \in item_data.set THEN item_data.description ELSE Null,
     price |-> IF "price" \in item_data.set THEN item_data.price ELSE None,
     is_active |-> IF "is_active" \in item_data.set THEN item_data.is_active
                   ELSE stored_item.is_active]

\* stored_item.model_copy(update=item_data.model_dump(exclude_unset=True))
UpdatedItem(stored_item, item_data) ==
    [id |-> stored_item.id,
     name |-> IF "name" \in item_data.set THEN item_data.name ELSE stored_item.name,
     description |-> IF "description" \in item_data.set THEN item_data.description
                     ELSE stored_item.description,
     price |-> IF "price" \in item_data.set THEN item_data.price ELSE stored_item.price,
     is_active |-> IF "is_active" \in item_data.set THEN item_data.is_active
                   ELSE stored_item.is_active]

\* whether an item can be returned under response_model=Item
ItemValid(item) ==
    /\ item.name # Null /\ LengthWithin(item.name, NameMinLength, NameMaxLength)
    /\ LengthWithin(item.description, 0, DescriptionMaxLength)
    /\ item.price # None /\ item.price > 0

\* f"Item with id {item_id} not found", word by word
NotFoundDetail(item_id) == <<"Item", "with", "id", ToString(item_id), "not", "found">>

NoItem == [id |-> 0]
NoBody == [set |-> {}]

\* a faulty variant: a request on an id that is not in the map is answered 204
MissingAnsweredNoContent(op, item_id, item_data, created) ==
    [op |-> op, item_id |-> item_id, item_data |-> item_data, status |-> 204,
     item |-> NoItem, detail |-> <<>>, created |-> created]

\* raise HTTPException(status_code=404, detail=...)
NotFound(op, item_id, item_data, created) ==
    [op |-> op, item_id |-> item_id, item_data |-> item_data, status |-> 404,
     item |-> NoItem, detail |-> NotFoundDetail(item_id), created |-> created]

\* the answer to a body that fails validation
Unprocessable(op, item_id, item_data, created) ==
    [op |-> op, item_id |-> item_id, item_data |-> item_data, status |-> 422,
     item |-> NoItem, detail |-> <<"validation", "error">>, created |-> created]

\* an answer that carries an item, or none
Answer(op, item_id, item_data, status, item, created) ==
    [op |-> op, item_id |-> item_id, item_data |-> item_data, status |-> status,
     item |-> item, detail |-> <<>>, created |-> created]

RECURSIVE ValuesActiveOnly(_, _)
RECURSIVE Values(_, _)
\* a faulty variant: items that are not active are left out
ValuesActiveOnly(db, n) ==
    IF n = 0 THEN <<>>
    ELSE ValuesActiveOnly(db, n - 1)
         \o (IF n \in DOMAIN db /\ db[n].is_active THEN <<db[n]>> ELSE <<>>)

\* list(d.values()) of a map whose keys were inserted in increasing order, all
\* of them at most n
Values(db, n) ==
    IF n = 0 THEN <<>>
    ELSE Values(db, n - 1) \o (IF n \in DOMAIN db THEN <<db[n]>> ELSE <<>>)

\* the answer of get_items
Listing(items, created) ==
    [op |-> "list", item_id |-> 0, item_data |-> NoBody, status |-> 200,
     item |-> NoItem, items |-> items, detail |-> <<>>, created |-> created]

(***************************************************************************)
(* POST /admin/update-monitoring-threshold.                                *)
(***************************************************************************)
\* the display name of a team that is not in the store
Unknown == <<20>>

\* home_team.name if home_team else "Unknown"
NameOrUnknown(rows, id) == IF HasId(rows, id) THEN ById(rows, id).name ELSE Unknown

\* a faulty variant: odds equal to the threshold are not monitored
NewShouldMonitorStrict(m, threshold) == m.favorite_odds < threshold

\* new_should_monitor = match.favorite_odds <= threshold
NewShouldMonitor(m, threshold) == m.favorite_odds <= threshold

\* the body of the loop for one match: <<session, newly_monitored>>
ThresholdOne(s, m, threshold, newly_monitored) ==
    IF m.should_monitor # NewShouldMonitor(m, threshold)
    THEN <<[s EXCEPT !.matches = Put(@, [m EXCEPT !.should_monitor = NewShouldMonitor(m, threshold)]),
                     !.count = @ + 1],
           IF NewShouldMonitor(m, threshold)
           THEN Append(newly_monitored,
                       [home |-> NameOrUnknown(s.teams, m.home_team_id),
                        away |-> NameOrUnknown(s.teams, m.away_team_id),
                        odds |-> m.favorite_odds])
           ELSE newly_monitored>>
    ELSE <<s, newly_monitored>>

RECURSIVE ThresholdLoop(_, _, _, _, _)
ThresholdLoop(s, ids, i, threshold, newly_monitored) ==
    IF i > Len(ids) THEN <<s, newly_monitored>>
    ELSE LET r == ThresholdOne(s, ById(s.matches, ids[i]), threshold, newly_monitored)
         IN ThresholdLoop(r[1], ids, i + 1, threshold, r[2])

\* the handler: <<session after the commit, newly_monitored>>; the session's
\* count is matches_updated
update_monitoring_threshold(s, threshold) ==
    LET with_odds == {m \in s.matches : m.favorite_odds # None}
        r == ThresholdLoop(s, SortedIds(with_odds), 1, threshold, <<>>)
    IN <<Commit(r[1]), r[2]>>

(***************************************************************************)
(* POST /admin/test-alert-simulation.                                      *)
(***************************************************************************)
\* the simulated live state written on the match
Simulated(m, home_score, away_score, current_minute) ==
    [m EXCEPT !.status = "LIVE", !.current_minute = current_minute,
              !.home_score = home_score, !.away_score = away_score]

\* a faulty variant: the simulated scores are left on the match
RestoredButScores(m, original) ==
    [m EXCEPT !.status = original.status,
              !.current_minute = original.current_minute,
              !.notification_sent = original.notification_sent]

\* the original state written back on the match
Restored(m, original) ==
    [m EXCEPT !.status = original.status,
              !.current_minute = original.current_minute,
              !.home_score = original.home_score,
              !.away_score = original.away_score,
              !.notification_sent = original.notification_sent]

\* the real alert, if the simulated state is due and the match was not
\* notified: the session after it
SimulationAlert(s, original, sim, tg) ==
    IF is_in_monitoring_window(sim) /\ is_favorite_losing(sim) /\ ~original.notification_sent
    THEN LET r == Logged(s, _send_alert(s, sim, tg), sim) IN
         IF r[2] THEN [r[1] EXCEPT !.matches = Put(@, [sim EXCEPT !.notification_sent = FALSE]),
                                   !.count = 1]
         ELSE r[1]
    ELSE s

\* the handler once the match and its teams are loaded
SimulateOn(s, original, home_score, away_score, current_minute, tg) ==
    LET sim == Simulated(original, home_score, away_score, current_minute)
        s1 == SimulationAlert([s EXCEPT !.matches = Put(@, sim)], original, sim, tg)
    IN Commit([s1 EXCEPT !.matches = Put(@, Restored(ById(s1.matches, original.id), original))])

\* the handler: the session it leaves; count is 1 if the answer says that
\* the alert was sent
test_alert_simulation(s, match_id, home_score, away_score, current_minute, tg) ==
    IF ~HasId(s.matches, match_id) THEN s
    ELSE IF ~(/\ HasId(s.teams, ById(s.matches, match_id).home_team_id)
              /\ HasId(s.teams, ById(s.matches, match_id).away_team_id)
              /\ HasId(s.teams, ById(s.matches, match_id).favorite_team_id)) THEN s
    ELSE SimulateOn(s, ById(s.matches, match_id), home_score, away_score, current_minute, tg)

(***************************************************************************)
(* The scheduler jobs: fetch_fixtures_job, fetch_odds_job and              *)
(* monitor_matches_job share one shape.  A job record holds the name of    *)
(* the job, its position, how many sessions the run opened and closed,     *)
(* whether the call raised, whether the handler logged it and whether an   *)
(* exception left the job.                                                 *)
(***************************************************************************)
JobNames == {"fetch_fixtures_job", "fetch_odds_job", "monitor_matches_job"}

NoJob ==
    [name |-> "none", pc |-> "idle", opened |-> 0, closed |-> 0,
     raised |-> FALSE, logged |-> FALSE, propagated |-> FALSE]

\* db = monitor_service.get_db(), then the try statement is entered
get_db(name) ==
    [name |-> name, pc |-> "try", opened |-> 1, closed |-> 0,
     raised |-> FALSE, logged |-> FALSE, propagated |-> FALSE]

\* the try body ends: by an exception (to the handler) or normally (to finally)
AfterTry(j, raised) ==
    [j EXCEPT !.raised = raised, !.pc = IF raised THEN "except" ELSE "finally"]

\* a faulty variant: the session is closed at the end of the try body, so
\* the handler is the last step of a run that raised
ExceptThenLeave(j) == [j EXCEPT !.logged = TRUE, !.pc = "idle"]

\* except Exception as e: print(...)
Except(j) == [j EXCEPT !.logged = TRUE, !.pc = "finally"]

\* finally: db.close()
Finally(j) == [j EXCEPT !.closed = @ + 1, !.pc = "idle"]

(***************************************************************************)
(* The state machine.                                                      *)
(***************************************************************************)
NoCall == [fn |-> "none"]

Init ==
    /\ leagues = {} /\ teams = {} /\ matches = {} /\ notifications = {}
    /\ now = DaySeconds + 8 * HourSeconds
    /\ salt = 0
    /\ last = [kind |-> "init"]
    /\ call = NoCall
    /\ fake_items_db = <<>>
    /\ next_id = 1
    /\ response = Answer("none", 0, NoBody, 0, NoItem, 0)
    /\ job = NoJob
    /\ runs = [p \in Runs |-> NoRun]

\* the tables after a call: what its session committed
Stored(s) ==
    /\ Cardinality(s.base.matches) <= MaxMatches
    /\ Cardinality(s.base.notifications) <= MaxNotifications
    /\ leagues' = s.base.leagues
    /\ teams' = s.base.teams
    /\ matches' = s.base.matches
    /\ notifications' = s.base.notifications

Open == Session(leagues, teams, matches, notifications)

\* a scheduler job or an admin request runs fetch_and_store_fixtures
CallFetchFixtures(feeds) ==
    \E feed \in feeds :
        LET s == fetch_and_store_fixtures(Open, feed[1], feed[2], feed[3]) IN
        /\ Stored(s)
        /\ last' = [kind |-> "fetch", ret |-> s.count, raised |-> s.raised,
                    deleted |-> s.deleted, commits |-> s.commits, feed |-> feed,
                    repeated |-> last.kind = "fetch" /\ last.feed = feed]
        /\ UNCHANGED <<now, salt, call, fake_items_db, next_id, response>>

\* a scheduler job or an admin request runs fetch_and_store_odds
CallFetchOdds(feeds, outcomes) ==
    \E all_odds \in feeds, tg \in outcomes :
        LET s == fetch_and_store_odds(Open, all_odds, tg) IN
        /\ Stored(s)
        /\ last' = [kind |-> "odds", ret |-> s.count, raised |-> s.raised,
                    calls |-> s.calls, updated |-> s.updated]
        /\ UNCHANGED <<now, salt, call, fake_items_db, next_id, response>>

\* a scheduler job or an admin request runs monitor_live_matches
CallMonitor(feeds, answers, outcomes) ==
    \E live_scores \in feeds, tg \in outcomes :
        \E answer \in IF live_scores = <<>> THEN answers
                      ELSE {[raised |-> TRUE, found |-> FALSE]} :
            LET fb == [i \in 1..MaxMatches |-> answer]
                s == monitor_live_matches(Open, live_scores, fb, tg) IN
            /\ Stored(s)
            /\ last' = [kind |-> "monitor", ret |-> s.count, raised |-> s.raised,
                        selected |-> s.selected, updated |-> s.updated,
                        calls |-> s.calls, sweep |-> live_scores # <<>>,
                        notifier_up |-> \A k \in 1..MaxMatches : tg[k]]
            /\ UNCHANGED <<now, salt, call, fake_items_db, next_id, response>>

\* the same calls as one step each: a whole job run, or an admin request
FetchFixturesOf(feeds) == CallFetchFixtures(feeds) /\ UNCHANGED <<job, runs>>

FetchOddsOf(feeds, outcomes) == CallFetchOdds(feeds, outcomes) /\ UNCHANGED <<job, runs>>

MonitorTickOf(feeds, answers, outcomes) == CallMonitor(feeds, answers, outcomes) /\ UNCHANGED <<job, runs>>

\* a day passes
AdvanceClock ==
    /\ now + DaySeconds < (MaxDay + 1) * DaySeconds
    /\ now' = now + DaySeconds
    /\ UNCHANGED <<leagues, teams, matches, notifications, salt, last, call, fake_items_db, next_id, response, job, runs>>

\* the process is restarted: the store stays, the hash salt changes and the
\* items are gone
Restart ==
    /\ salt' \in {0, 1} \ {salt}
    /\ fake_items_db' = <<>>
    /\ next_id' = 1
    /\ response' = Answer("none", 0, NoBody, 0, NoItem, 0)
    /\ UNCHANGED <<leagues, teams, matches, notifications, now, last, call, job, runs>>

FetchOdds ==
    FetchOddsOf(SeqsUpTo(OddsRecords({Afternoon}, BookChoices), MaxFeed), TelegramOutcomes)

MonitorTick == MonitorTickOf(SeqsUpTo(LiveRecords, MaxFeed), FixtureAnswers, TelegramOutcomes)

\* The alert pipeline on one day: the afternoon fixture A v B is stored from the
\* odds feed or from the fixture provider, priced, and monitored.
FetchFixtures == FetchFixturesOf(Feeds({Afternoon}, BookChoices, {<<ApiFixture(39)>>}))

Next == FetchFixtures \/ FetchOdds \/ MonitorTick

Spec == Init /\ [][Next]_vars

\* The store over days and restarts: every feed, no pricing and no monitoring.
FetchAnyFixtures ==
    FetchFixturesOf(Feeds({Afternoon, LastMinute, TooFar}, {LowHome},
                          {<<ApiFixture(39)>>, <<ApiFixture(999)>>}))

NextStore == FetchAnyFixtures \/ AdvanceClock \/ Restart

SpecStore == Init /\ [][NextStore]_vars

\* The store and the monitor over days: the cleanup meets matches of every status.
FetchDayFixtures ==
    FetchFixturesOf(Feeds({Afternoon}, {LowHome}, {<<ApiFixture(39)>>}))

NextDays == FetchDayFixtures \/ MonitorTick \/ AdvanceClock

SpecDays == Init /\ [][NextDays]_vars

\* the name of a team only the test knows
NameT == <<13>>

\* an admin request runs the test-alert simulation; due is
\* both_conditions_met of the response, alert_sent its alert_sent: the
\* test match's notification_sent once the monitoring pass returned
TestAlertOf(names, minutes, feeds, answers, outcomes) ==
    \E home_team \in names, current_minute \in minutes, favorite_is_home \in BOOLEAN :
      \E live_scores \in feeds, answer \in answers, tg \in outcomes :
        /\ Cardinality({m \in matches : m.api_id < TestIdFloor}) < MaxMatches
        /\ LET fb == [i \in 1..MaxMatches |-> answer]
               r == CreateTestData(ClearTestData(Open), home_team, NameB, 0, 2,
                                   current_minute, favorite_is_home, 130)
               due == is_in_monitoring_window(r[2]) /\ is_favorite_losing(r[2])
               s == test_alert(Open, home_team, NameB, 0, 2, current_minute,
                               favorite_is_home, 130, live_scores, fb, tg)
           IN /\ Stored(s)
              /\ last' = [kind |-> "test_alert", ret |-> s.count, raised |-> s.raised,
                          queries |-> s.queries, due |-> due,
                          alert_sent |-> due /\ ById(s.matches, r[2].id).notification_sent]
              /\ UNCHANGED <<now, salt, call, fake_items_db, next_id, response, job, runs>>

\* the live scores are unavailable, the fixture provider too; the notifier is up
TestAlert ==
    TestAlertOf({NameA, NameT}, {60, 70}, {<<>>}, {[raised |-> TRUE, found |-> FALSE]},
                {[k \in 1..MaxMatches |-> TRUE]})

\* The admin's simulation among the jobs: test rows are created and cleared
\* while the fixture A v B is stored, priced and monitored with the notifier up.
FetchAdminFixtures ==
    FetchFixturesOf(Feeds({Afternoon}, {LowHome}, {<<ApiFixture(39)>>}))

FetchAdminOdds ==
    FetchOddsOf({<<r>> : r \in OddsRecords({Afternoon}, {HighAway})}, {[k \in 1..MaxMatches |-> TRUE]})

MonitorAdmin ==
    MonitorTickOf({<<LiveRecord(Scores(0, 2), FALSE, 60)>>}, FixtureAnswers,
                  {[k \in 1..MaxMatches |-> TRUE]})

NextAdmin == FetchAdminFixtures \/ FetchAdminOdds \/ MonitorAdmin \/ TestAlert

SpecAdmin == Init /\ [][NextAdmin]_vars

\* A batch: the odds feed lists the fixture A v B up to MaxBatch times, kicking
\* off in the afternoon or at 23:59, and the fixture provider knows its id.
BatchFeeds ==
    {<<all_odds, <<ApiFixture(39)>>, down>> :
        all_odds \in SeqsUpTo(OddsRecords({Afternoon, LastMinute}, {LowHome}), MaxBatch),
        down \in BOOLEAN}

FetchBatch == FetchFixturesOf(BatchFeeds)

NextBatch == FetchBatch \/ Restart

SpecBatch == Init /\ [][NextBatch]_vars

(***************************************************************************)
(* The admin moves the monitoring threshold while fixtures are stored      *)
(* with and without odds, priced and alerted on, next to a test match.     *)
(***************************************************************************)
Thresholds == {100, 130, 200}

UpdateMonitoringThreshold ==
    \E threshold \in Thresholds :
        LET r == update_monitoring_threshold(Open, threshold) IN
        /\ Stored(r[1])
        /\ last' = [kind |-> "threshold", threshold |-> threshold, ret |-> r[1].count,
                    raised |-> r[1].raised, newly_monitored |-> r[2]]
        /\ UNCHANGED <<now, salt, call, fake_items_db, next_id, response, job, runs>>

FetchThresholdFixtures ==
    FetchFixturesOf(Feeds({Afternoon}, {HighAway}, {<<ApiFixture(39)>>}))

FetchThresholdOdds ==
    FetchOddsOf({<<r>> : r \in OddsRecords({Afternoon}, {LowHome})}, {[k \in 1..MaxMatches |-> TRUE]})

NextThreshold ==
    FetchThresholdFixtures \/ FetchThresholdOdds \/ UpdateMonitoringThreshold \/ TestAlert

SpecThreshold == Init /\ [][NextThreshold]_vars

(***************************************************************************)
(* Monitoring ticks whose live-score sweep holds one record of A v B: not  *)
(* started, running since some seconds (or since an unknown time), or      *)
(* completed.                                                              *)
(***************************************************************************)
\* seconds since the kick-off, from 30 s before it to two hours after it
ElapsedSeconds ==
    {0 - 30, 0, 30, MinuteSeconds, 60 * MinuteSeconds + 59, 90 * MinuteSeconds, 2 * HourSeconds}

TimedRecords ==
    {[home_team |-> NameA, away_team |-> NameB, scores |-> Scores(sc[1], sc[2]),
      completed |-> FALSE, commence_time |-> now - e] :
        sc \in {<<0, 2>>, <<2, 0>>}, e \in ElapsedSeconds}
    \cup {[home_team |-> NameA, away_team |-> NameB, scores |-> Scores(0, 2),
           completed |-> c, commence_time |-> t] :
            c \in BOOLEAN, t \in {None, now - 60 * MinuteSeconds}}
    \cup {LiveRecord(<<>>, FALSE, 60)}

MonitorLive ==
    \E live_match \in TimedRecords, up \in BOOLEAN :
        LET fb == [i \in 1..MaxMatches |-> [raised |-> TRUE, found |-> FALSE]]
            tg == [k \in 1..MaxMatches |-> up]
            s == monitor_live_matches(Open, <<live_match>>, fb, tg) IN
        /\ Stored(s)
        /\ last' = [kind |-> "live", ret |-> s.count, raised |-> s.raised,
                    selected |-> s.selected, updated |-> s.updated,
                    live_match |-> live_match]
        /\ UNCHANGED <<now, salt, call, fake_items_db, next_id, response, job, runs>>

FetchLiveFixtures ==
    FetchFixturesOf(Feeds({Afternoon}, {LowHome}, {<<ApiFixture(39)>>}))

NextLive == FetchLiveFixtures \/ MonitorLive

SpecLive == Init /\ [][NextLive]_vars

(***************************************************************************)
(* The fixture provider alone: the odds feed is empty, so the fallback     *)
(* stores the two rows of A v B, and the live scores are unavailable, so   *)
(* each tick asks the fixture provider about both.                         *)
(***************************************************************************)
\* the provider's id of the fixture: a small one, or one of seven digits
ProviderIds == {7, 1208021}

FetchFallbackFixtures ==
    FetchFixturesOf({<<<<>>, <<[ApiFixture(39) EXCEPT !.api_id = x]>>, FALSE>> : x \in ProviderIds})

MonitorFallback ==
    \E fb \in [1..MaxMatches -> FixtureAnswers] :
        LET tg == [k \in 1..MaxMatches |-> TRUE]
            s == monitor_live_matches(Open, <<>>, fb, tg) IN
        /\ Stored(s)
        /\ last' = [kind |-> "fallback", ret |-> s.count, raised |-> s.raised,
                    selected |-> s.selected, updated |-> s.updated,
                    queries |-> s.queries]
        /\ UNCHANGED <<now, salt, call, fake_items_db, next_id, response, job, runs>>

NextFallback == FetchFallbackFixtures \/ MonitorFallback \/ AdvanceClock

SpecFallback == Init /\ [][NextFallback]_vars

(***************************************************************************)
(* The admin probes stored matches with the match-id based simulation,     *)
(* before and after a monitoring tick notified them.                       *)
(***************************************************************************)
TestAlertSimulation ==
    \E match_id \in 1..(MaxMatches + 1), home_score \in {0, 2}, current_minute \in {60, 70}, up \in BOOLEAN :
        LET tg == [k \in 1..MaxMatches |-> up]
            s == test_alert_simulation(Open, match_id, home_score, 2 - home_score, current_minute, tg) IN
        /\ Stored(s)
        /\ last' = [kind |-> "simulation", match_id |-> match_id,
                    home_score |-> home_score, away_score |-> 2 - home_score,
                    current_minute |-> current_minute,
                    ret |-> s.count, raised |-> s.raised, calls |-> s.calls]
        /\ UNCHANGED <<now, salt, call, fake_items_db, next_id, response, job, runs>>

NextSimulation == FetchAdminFixtures \/ FetchAdminOdds \/ MonitorAdmin \/ TestAlertSimulation

SpecSimulation == Init /\ [][NextSimulation]_vars

(***************************************************************************)
(* The scheduler jobs, step by step.                                       *)
(***************************************************************************)
\* the scheduler starts a job: the session is opened
JobStart ==
    /\ job.pc = "idle"
    /\ \E name \in JobNames : job' = get_db(name)
    /\ UNCHANGED <<leagues, teams, matches, notifications, now, salt, last, call, fake_items_db, next_id, response>>
    /\ UNCHANGED runs

\* the try body of fetch_fixtures_job
FetchFixturesJob ==
    /\ job.pc = "try" /\ job.name = "fetch_fixtures_job"
    /\ CallFetchFixtures({feed \in BatchFeeds : ~feed[3]})
    /\ job' = AfterTry(job, last'.raised)
    /\ UNCHANGED runs

\* the try body of fetch_odds_job
FetchOddsJob ==
    /\ job.pc = "try" /\ job.name = "fetch_odds_job"
    /\ CallFetchOdds({<<r>> : r \in OddsRecords({Afternoon}, {LowHome})}, {[k \in 1..MaxMatches |-> TRUE]})
    /\ job' = AfterTry(job, last'.raised)
    /\ UNCHANGED runs

\* the try body of monitor_matches_job
MonitorMatchesJob ==
    /\ job.pc = "try" /\ job.name = "monitor_matches_job"
    /\ CallMonitor({<<LiveRecord(Scores(0, 2), FALSE, 60)>>}, FixtureAnswers, {[k \in 1..MaxMatches |-> TRUE]})
    /\ job' = AfterTry(job, last'.raised)
    /\ UNCHANGED runs

\* the handler of the job
JobExcept ==
    /\ job.pc = "except"
    /\ job' = Except(job)
    /\ UNCHANGED <<leagues, teams, matches, notifications, now, salt, last, call, fake_items_db, next_id, response>>
    /\ UNCHANGED runs

\* the finally clause of the job
JobFinally ==
    /\ job.pc = "finally"
    /\ job' = Finally(job)
    /\ UNCHANGED <<leagues, teams, matches, notifications, now, salt, last, call, fake_items_db, next_id, response>>
    /\ UNCHANGED runs

NextJobs ==
    JobStart \/ FetchFixturesJob \/ FetchOddsJob \/ MonitorMatchesJob \/ JobExcept \/ JobFinally

SpecJobs == Init /\ [][NextJobs]_vars

(***************************************************************************)
(* Two executions of monitor_live_matches that overlap, on a store that    *)
(* holds the fixture A v B with the home team priced at 1.30.              *)
(***************************************************************************)
\* the sweep fails or is empty, or holds A v B at minute 60, 0-2 or 2-0
OverlapFeeds ==
    {<<>>, <<LiveRecord(Scores(0, 2), FALSE, 60)>>, <<LiveRecord(Scores(2, 0), FALSE, 60)>>}

\* the execution is suspended again, or is through and commits
Landed(p, r) ==
    IF r.pc = "end"
    THEN /\ matches' = FlushedMatches(matches, r.s)
         /\ notifications' = FlushedNotifications(notifications, r.s)
         /\ Cardinality(notifications') <= MaxNotifications
         /\ runs' = [runs EXCEPT ![p] = [r EXCEPT !.pc = "idle", !.done = TRUE]]
    ELSE /\ runs' = [runs EXCEPT ![p] = r]
         /\ UNCHANGED <<matches, notifications>>

OverlapBegin ==
    \E p \in Runs :
        /\ runs[p].pc = "idle"
        /\ runs' = [runs EXCEPT ![p] = Begin(Open)]
        /\ UNCHANGED <<leagues, teams, matches, notifications, now, salt, last, call, fake_items_db, next_id, response, job>>

OverlapSweep ==
    \E p \in Runs, live_scores \in OverlapFeeds :
        /\ runs[p].pc = "sweep"
        /\ Landed(p, Swept(runs[p], live_scores))
        /\ UNCHANGED <<leagues, teams, now, salt, last, call, fake_items_db, next_id, response, job>>

OverlapFixture ==
    \E p \in Runs, answer \in FixtureAnswers :
        /\ runs[p].pc = "fixture"
        /\ Landed(p, Answered(runs[p], answer))
        /\ UNCHANGED <<leagues, teams, now, salt, last, call, fake_items_db, next_id, response, job>>

OverlapSend ==
    \E p \in Runs, success \in BOOLEAN :
        /\ runs[p].pc = "send"
        /\ Landed(p, Sent(runs[p], success))
        /\ UNCHANGED <<leagues, teams, now, salt, last, call, fake_items_db, next_id, response, job>>

FetchOverlapFixtures ==
    FetchFixturesOf({<<<<r>>, <<ApiFixture(39)>>, FALSE>> : r \in OddsRecords({Afternoon}, {LowHome})})

NextOverlap ==
    FetchOverlapFixtures \/ OverlapBegin \/ OverlapSweep \/ OverlapFixture \/ OverlapSend

SpecOverlap == Init /\ [][NextOverlap]_vars

\* parse_odds on its own: bookmakers that quote A v B, or another market, or nothing
Totals == <<8, 3>>

QuotedBooks ==
    {[markets |-> <<[key |-> k, outcomes |-> Outcomes(NameA, NameB, h, a, d)]>>] :
        k \in {H2H, Totals}, h \in {None, 145, 150}, a \in {None, 145, 260, 280},
        d \in {None, 350}}
    \cup {[markets |-> <<>>]}

\* the function keeps no state: one call per behaviour covers it
ParseOdds ==
    /\ call = NoCall
    /\ \E books \in SeqsUpTo(QuotedBooks, MaxBooks) :
        LET odds_data == [home_team |-> NameA, away_team |-> NameB, bookmakers |-> books] IN
        /\ call' = [fn |-> "parse_odds", arg |-> odds_data, ret |-> parse_odds(odds_data)]
        /\ UNCHANGED <<leagues, teams, matches, notifications, now, salt, last, fake_items_db, next_id, response, job, runs>>

SpecParseOdds == Init /\ [][ParseOdds]_vars

\* a match A (team 1) v B (team 2) in play, with the given favorite, score and minute
LiveMatch(favorite_team_id, home_score, away_score, current_minute) ==
    [Match(1, 7, 1, 1, 2, 0, "1H", None, None, None, favorite_team_id, None, TRUE)
        EXCEPT !.home_score = home_score, !.away_score = away_score,
               !.current_minute = current_minute]

\* the property is read on a match of any favorite and score
IsFavoriteLosing ==
    /\ call = NoCall
    /\ \E favorite_team_id \in {None, 1, 2}, home_score, away_score \in {None} \cup 0..MaxScore, current_minute \in {None, 60} :
        LET m == LiveMatch(favorite_team_id, home_score, away_score, current_minute) IN
        /\ call' = [fn |-> "is_favorite_losing", arg |-> m, ret |-> is_favorite_losing(m)]
        /\ UNCHANGED <<leagues, teams, matches, notifications, now, salt, last, fake_items_db, next_id, response, job, runs>>

\* the property is read on a match at any minute
IsInMonitoringWindow ==
    /\ call = NoCall
    /\ \E current_minute \in {None} \cup 0..MaxMinute :
        LET m == LiveMatch(1, 0, 1, current_minute) IN
        /\ call' = [fn |-> "is_in_monitoring_window", arg |-> m,
                    ret |-> is_in_monitoring_window(m)]
        /\ UNCHANGED <<leagues, teams, matches, notifications, now, salt, last, fake_items_db, next_id, response, job, runs>>

NextMatch == IsFavoriteLosing \/ IsInMonitoringWindow

SpecMatch == Init /\ [][NextMatch]_vars

\* request bodies: the body of the tests and its variations in one field
LongString(n) == [i \in 1..n |-> 1]

Body(set, name, description, price, is_active) ==
    [set |-> set, name |-> name, description |-> description, price |-> price,
     is_active |-> is_active]

CreateBodies ==
    {Body({"name", "price"} \cup more, <<1>>, <<3>>, 999, FALSE) :
        more \in {{}, {"description"}, {"is_active"}, {"extra"}}}
    \cup {Body({"name", "price"}, name, Null, 999, TRUE) :
            name \in {<<>>, LongString(NameMaxLength), LongString(NameMaxLength + 1)}}
    \cup {Body({"name", "price"}, <<1>>, Null, price, TRUE) : price \in {-1000, 0}}
    \cup {Body({"name", "price", "description"}, <<1>>, LongString(DescriptionMaxLength + 1), 999, TRUE),
          Body({"name"}, <<1>>, Null, None, TRUE),
          Body({"price"}, Null, Null, 999, TRUE)}

UpdateBodies ==
    {Body(set, <<2>>, <<4>>, 500, FALSE) :
        set \in {{}, {"name"}, {"name", "price"}, {"description"}, {"name", "extra"}}}
    \cup {Body({"name"}, name, Null, None, TRUE) : name \in {<<>>, Null}}
    \cup {Body({"price"}, Null, Null, 0, TRUE)}

ItemIds == 1..MaxItems \cup {999}

\* POST /items/
CreateItem ==
    \E item_data \in CreateBodies :
        IF ~ItemCreateValid(item_data)
        THEN /\ response' = Unprocessable("create", 0, item_data, response.created)
             /\ UNCHANGED <<fake_items_db, next_id>>
             /\ UNCHANGED <<leagues, teams, matches, notifications, now, salt, last, call, job, runs>>
        ELSE /\ next_id <= MaxItems
             /\ LET r == create_item(fake_items_db, next_id, item_data) IN
                /\ fake_items_db' = r.db
                /\ next_id' = r.next_id
                /\ response' = Answer("create", 0, item_data, 201, r.item, response.created + 1)
             /\ UNCHANGED <<leagues, teams, matches, notifications, now, salt, last, call, job, runs>>

\* GET /items/{item_id}
GetItem ==
    \E item_id \in ItemIds :
        /\ response' = IF item_id \notin DOMAIN fake_items_db
                       THEN NotFound("get", item_id, NoBody, response.created)
                       ELSE Answer("get", item_id, NoBody, 200, fake_items_db[item_id],
                                   response.created)
        /\ UNCHANGED <<fake_items_db, next_id>>
        /\ UNCHANGED <<leagues, teams, matches, notifications, now, salt, last, call, job, runs>>

\* PUT /items/{item_id}: the body is validated before the handler runs; the
\* map is written before the answer is serialised, which an item with a null
\* name passes or not depending on the framework
UpdateItem ==
    \E item_id \in ItemIds, item_data \in UpdateBodies :
        IF ~ItemUpdateValid(item_data)
        THEN /\ response' = Unprocessable("update", item_id, item_data, response.created)
             /\ UNCHANGED <<fake_items_db, next_id>>
             /\ UNCHANGED <<leagues, teams, matches, notifications, now, salt, last, call, job, runs>>
        ELSE IF item_id \notin DOMAIN fake_items_db
        THEN /\ response' = NotFound("update", item_id, item_data, response.created)
             /\ UNCHANGED <<fake_items_db, next_id>>
             /\ UNCHANGED <<leagues, teams, matches, notifications, now, salt, last, call, job, runs>>
        ELSE LET updated_item == UpdatedItem(fake_items_db[item_id], item_data) IN
             /\ fake_items_db' = DictSet(fake_items_db, item_id, updated_item)
             /\ \E status \in IF ItemValid(updated_item) THEN {200} ELSE {200, 500} :
                    response' = Answer("update", item_id, item_data, status,
                                       IF status = 200 THEN updated_item ELSE NoItem,
                                       response.created)
             /\ UNCHANGED next_id
             /\ UNCHANGED <<leagues, teams, matches, notifications, now, salt, last, call, job, runs>>

\* DELETE /items/{item_id}
DeleteItem ==
    \E item_id \in ItemIds :
        IF item_id \notin DOMAIN fake_items_db
        THEN /\ response' = NotFound("delete", item_id, NoBody, response.created)
             /\ UNCHANGED <<fake_items_db, next_id>>
             /\ UNCHANGED <<leagues, teams, matches, notifications, now, salt, last, call, job, runs>>
        ELSE /\ fake_items_db' = DictDel(fake_items_db, item_id)
             /\ response' = Answer("delete", item_id, NoBody, 204, NoItem, response.created)
             /\ UNCHANGED next_id
             /\ UNCHANGED <<leagues, teams, matches, notifications, now, salt, last, call, job, runs>>

\* GET /items/
GetItems ==
    /\ response' = Listing(Values(fake_items_db, next_id - 1), response.created)
    /\ UNCHANGED <<fake_items_db, next_id>>
    /\ UNCHANGED <<leagues, teams, matches, notifications, now, salt, last, call, job, runs>>

NextItems == CreateItem \/ GetItems \/ GetItem \/ UpdateItem \/ DeleteItem \/ Restart

SpecItems == Init /\ [][NextItems]_vars

(***************************************************************************)
(* Properties.                                                             *)
(***************************************************************************)
\* the step is one run of monitor_live_matches / of fetch_and_store_fixtures
TickStep == last'.kind = "monitor" /\ now' = now /\ salt' = salt
FetchStep == last'.kind = "fetch" /\ now' = now /\ salt' = salt

\* the matches a call dispatched an alert for
Dispatched(log) == {log.calls[k].id : k \in 1..Len(log.calls)}

\* C1: in a tick an alert is dispatched for a match only if the match was
\* selected (should_monitor true, notification_sent false before the tick) and,
\* with the status, scores and minute the tick gave it, it is in the
\* monitoring window and its favorite is losing.
C1_AlertOnlyWhenSelectedAndDue ==
    [][TickStep =>
        \A id \in Dispatched(last') :
            /\ \E m \in matches : m.id = id /\ m.should_monitor /\ ~m.notification_sent
            /\ id \in last'.selected /\ id \in last'.updated
            /\ \E m \in matches' :
                m.id = id /\ is_in_monitoring_window(m) /\ is_favorite_losing(m)]_vars

\* a tick that dispatched an alert for one match and updated another without one
C1_Witness ==
    /\ last.kind = "monitor"
    /\ Dispatched(last) # {}
    /\ last.updated \ Dispatched(last) # {}

\* C2: a match whose notification_sent is true keeps it true, and a tick
\* neither selects it, nor dispatches an alert for it, nor writes a
\* Notification row for it.
C2_NotifiedMatchIsLeftAlone ==
    [][\A m \in matches : m.notification_sent =>
        /\ \A n \in matches' :
            (n.id = m.id /\ n.api_id = m.api_id /\ n.match_date = m.match_date)
                => n.notification_sent
        /\ TickStep =>
            /\ m.id \notin last'.selected
            /\ m.id \notin Dispatched(last')
            /\ \A r \in notifications' \ notifications : r.match_id # m.id]_vars

\* a tick ran over a monitored match that an earlier tick had marked notified
C2_Witness ==
    /\ last.kind = "monitor"
    /\ \E m \in matches :
        /\ m.should_monitor /\ m.notification_sent /\ m.notified_at # None
        /\ m.id \notin last.selected

\* the selected matches that the tick left in the window with the favorite losing
Due == {m \in matches : /\ m.id \in last.selected /\ m.id \in last.updated
                        /\ is_in_monitoring_window(m) /\ is_favorite_losing(m)}

\* C3: after a tick during which the notifier delivers, every selected match
\* whose updated state is in the window with the favorite losing is marked
\* notified, with notified_at, and the tick returns their number.
C3_DueMatchIsMarkedWhenDelivered ==
    (last.kind = "monitor" /\ last.notifier_up) =>
        /\ \A m \in Due : m.notification_sent /\ m.notified_at # None
        /\ last.ret = Cardinality(Due)

\* C4: every dispatch of a live alert adds exactly one Notification row for
\* the match, 'sent' if the dispatch succeeded and 'failed' if it did not.
C4_DispatchWritesOneRow ==
    last.kind = "monitor" =>
        \A k \in 1..Len(last.calls) :
            LET c == last.calls[k] IN
            /\ Cardinality(c.rows) = 1
            /\ \A r \in c.rows :
                r.match_id = c.id /\ r.status = (IF c.success THEN "sent" ELSE "failed")

\* C5: a low-odds dispatch whose send succeeded left the match with
\* notification_sent true and added exactly one Notification row, 'sent'; one
\* whose send failed added no row and left notification_sent false.
C5_LowOddsAlertRecordsSuccessOnly ==
    last.kind = "odds" =>
        \A k \in 1..Len(last.calls) :
            LET c == last.calls[k] IN
            c.invoked =>
                IF c.success
                THEN /\ c.flag
                     /\ Cardinality(c.rows) = 1
                     /\ \A r \in c.rows : r.match_id = c.id /\ r.status = "sent"
                     /\ last.raised \/ c.rows \subseteq notifications
                ELSE c.rows = {} /\ ~c.flag

\* a low-odds dispatch whose send failed
C5_Witness ==
    /\ last.kind = "odds"
    /\ \E k \in 1..Len(last.calls) : last.calls[k].invoked /\ ~last.calls[k].success
    /\ \E m \in matches : m.should_monitor /\ ~m.notification_sent

C7_CreatedMonitoredOnlyBelowThreshold ==
    [][FetchStep =>
        \A m \in matches' :
            (~\E old \in matches : old.id = m.id) =>
                (m.should_monitor <=>
                    (m.favorite_odds # None /\ m.favorite_odds < FAVORITE_ODDS_THRESHOLD))]_vars

\* the calendar day of a datetime
DayOf(d) == d \div DaySeconds

\* C8: after fetch_and_store_fixtures ran twice in succession on the same
\* feed there is at most one match per home/away pair and calendar day.
C8_RepeatedFetchKeepsOnePerPairAndDay ==
    (last.kind = "fetch" /\ last.repeated) =>
        \A m1, m2 \in matches :
            (/\ m1.home_team_id = m2.home_team_id /\ m1.away_team_id = m2.away_team_id
             /\ DayOf(m1.match_date) = DayOf(m2.match_date)) => m1 = m2

\* the matches dated before the start of the current day
Stale == {m \in matches : m.match_date < (now \div DaySeconds) * DaySeconds}

\* C9: the cleanup that opens fetch_and_store_fixtures removes exactly the
\* matches dated before the start of the current day, whatever their status,
\* keeps the others, reports the number removed, and removes or changes no
\* League or Team row.
C9_CleanupRemovesExactlyStale ==
    [][FetchStep =>
        /\ last'.deleted = Cardinality(Stale)
        /\ \A m \in Stale :
            ~\E n \in matches' : n.id = m.id /\ n.match_date = m.match_date
        /\ \A m \in matches \ Stale :
            \E n \in matches' : n.id = m.id /\ n.match_date = m.match_date
        /\ leagues \subseteq leagues' /\ teams \subseteq teams']_vars

\* a cleanup removed a stale match that had been played and alerted (its
\* Notification row is left behind), and the run then stored today's fixture
C9_Witness ==
    /\ last.kind = "fetch" /\ last.deleted > 0
    /\ \E r \in notifications : r.status = "sent" /\ ~\E m \in matches : m.notification_sent
    /\ \E m \in matches : m.match_date >= (now \div DaySeconds) * DaySeconds

\* the prices quoted for an outcome in the h2h markets of the bookmakers
Quoted(odds_data, name) ==
    UNION {UNION {{b.markets[i].outcomes[j].price :
                        j \in {x \in 1..Len(b.markets[i].outcomes) :
                                    b.markets[i].outcomes[x].name = name}} :
                    i \in {x \in 1..Len(b.markets) : b.markets[x].key = H2H}} :
            b \in {odds_data.bookmakers[n] : n \in 1..Len(odds_data.bookmakers)}}

Lowest(S) == CHOOSE x \in S : \A y \in S : x <= y

\* C10: a result of parse_odds holds, for home, away and draw independently,
\* the lowest price quoted in the h2h markets of the bookmakers; its favorite is
\* the side, home or away, with the lower of the two prices, and favorite_odds
\* is that price.
C10_ParseOddsKeepsLowest ==
    (call.fn = "parse_odds" /\ call.ret.ok) =>
        LET home == Quoted(call.arg, call.arg.home_team)
            away == Quoted(call.arg, call.arg.away_team)
            draw == Quoted(call.arg, DrawName)
        IN /\ home # {} /\ call.ret.home_odds = Lowest(home)
           /\ away # {} /\ call.ret.away_odds = Lowest(away)
           /\ call.ret.draw_odds = (IF draw = {} THEN None ELSE Lowest(draw))
           /\ call.ret.home_odds < call.ret.away_odds =>
                call.ret.favorite_team = "home" /\ call.ret.favorite_odds = call.ret.home_odds
           /\ call.ret.away_odds < call.ret.home_odds =>
                call.ret.favorite_team = "away" /\ call.ret.favorite_odds = call.ret.away_odds
           /\ call.ret.favorite_odds \in {call.ret.home_odds, call.ret.away_odds}

\* bookmaker A quotes 1.50 / 2.60 and bookmaker B 1.45 / 2.80
C10_Witness ==
    /\ call.fn = "parse_odds"
    /\ call.arg.bookmakers = <<Bookmaker(NameA, NameB, 150, 260, None),
                               Bookmaker(NameA, NameB, 145, 280, None)>>
    /\ call.ret.ok /\ call.ret.home_odds = 145 /\ call.ret.away_odds = 260
    /\ call.ret.favorite_team = "home" /\ call.ret.favorite_odds = 145

\* whether one bookmaker quotes both sides in an h2h market
OneBookmakerQuotesBoth(odds_data) ==
    \E n \in 1..Len(odds_data.bookmakers) :
        LET one == [odds_data EXCEPT !.bookmakers = <<odds_data.bookmakers[n]>>]
        IN Quoted(one, odds_data.home_team) # {} /\ Quoted(one, odds_data.away_team) # {}

\* C11 as stated: parse_odds returns the absent value whenever no single
\* bookmaker quotes both a home and an away price.
C11_AbsentUnlessOneBookmakerQuotesBoth ==
    (call.fn = "parse_odds" /\ ~OneBookmakerQuotesBoth(call.arg)) => ~call.ret.ok

\* C11: parse_odds returns the absent value exactly when, over all the
\* bookmakers together, no home price or no away price is quoted in an h2h
\* market (an empty bookmaker list included); a home price of one bookmaker
\* and an away price of another make a result.
C11_AbsentIffASideIsUnquoted ==
    call.fn = "parse_odds" =>
        (~call.ret.ok <=> \/ Quoted(call.arg, call.arg.home_team) = {}
                          \/ Quoted(call.arg, call.arg.away_team) = {})

\* two bookmakers, neither quoting the away side: no result
C11_Witness ==
    /\ call.fn = "parse_odds"
    /\ call.arg.bookmakers = <<Bookmaker(NameA, NameB, 150, None, 350),
                               Bookmaker(NameA, NameB, 145, None, None)>>
    /\ ~call.ret.ok


\* the favorite's own score and the opponent's, for a favorite that plays
OwnScore(m) == IF m.favorite_team_id = m.home_team_id THEN m.home_score ELSE m.away_score
OpponentScore(m) == IF m.favorite_team_id = m.home_team_id THEN m.away_score ELSE m.home_score

\* C12: is_favorite_losing is true exactly when a favorite is set, both scores
\* are present and the favorite's own score is strictly less than the
\* opponent's.
C12_FavoriteLosingIffBehind ==
    call.fn = "is_favorite_losing" =>
        (call.ret <=> /\ call.arg.favorite_team_id # None
                      /\ call.arg.home_score # None /\ call.arg.away_score # None
                      /\ OwnScore(call.arg) < OpponentScore(call.arg))

\* the favorite at home, 0-2 down
C12_Witness ==
    /\ call.fn = "is_favorite_losing"
    /\ call.arg.favorite_team_id = call.arg.home_team_id
    /\ call.arg.home_score = 0 /\ call.arg.away_score = 2
    /\ call.ret

\* C13: is_in_monitoring_window is true exactly when current_minute is present
\* and lies between MONITOR_MINUTE_START and MONITOR_MINUTE_END, both included.
C13_InWindowIffMinuteInRange ==
    call.fn = "is_in_monitoring_window" =>
        (call.ret <=> /\ call.arg.current_minute # None
                      /\ MONITOR_MINUTE_START <= call.arg.current_minute
                      /\ call.arg.current_minute <= MONITOR_MINUTE_END)

\* the last minute of the window
C13_Witness ==
    /\ call.fn = "is_in_monitoring_window"
    /\ call.arg.current_minute = MONITOR_MINUTE_END
    /\ call.ret


\* C14: in every reachable state a match whose favorite_team_id is set has it
\* equal to its home_team_id or its away_team_id.
C14_FavoriteIsHomeOrAway ==
    \A m \in matches :
        m.favorite_team_id # None => m.favorite_team_id \in {m.home_team_id, m.away_team_id}

\* the odds backfill has named the away side of a stored fixture the favorite
\* while a test match of the admin's simulation is in the store
C14_Witness ==
    /\ last.kind = "odds" /\ last.ret = 1
    /\ \E m \in matches : m.api_id < TestIdFloor /\ m.favorite_team_id = m.away_team_id
    /\ \E m \in matches : m.api_id = TestMatchId

\* C15: in every reachable state every match references a League row and two
\* Team rows that exist in the store.
C15_MatchReferencesExist ==
    \A m \in matches :
        /\ HasId(leagues, m.league_id)
        /\ HasId(teams, m.home_team_id)
        /\ HasId(teams, m.away_team_id)


\* whether the store holds a match of the record's teams on the record's day
StoredFor(odds_match) ==
    \E m \in matches :
        /\ TodayStart(m.match_date) = TodayStart(odds_match.commence_time)
        /\ \E h \in teams : h.id = m.home_team_id /\ h.name = Strip(odds_match.home_team)
        /\ \E a \in teams : a.id = m.away_team_id /\ a.name = Strip(odds_match.away_team)

\* C16: in a batch of fetch_and_store_fixtures a failure on one item skips that
\* item only: when the loop has counted an item as stored, the run's commit
\* persists it, so a match of some record of the batch is in the store.
C16_CountedItemsArePersisted ==
    (last.kind = "fetch" /\ last.ret >= 1 /\ last.feed[1] # <<>>) =>
        \E i \in 1..Len(last.feed[1]) : StoredFor(last.feed[1][i])


\* a step of the items routes that is a request of the given kinds
ItemsStep(ops) == response' # response /\ response'.op \in ops

\* the items and the counter are left as they were
ItemsUnchanged == fake_items_db' = fake_items_db /\ next_id' = next_id

\* C17: the map starts empty with the counter at 1, and the k-th successful
\* POST since the process started gets id k: the counter is one more than the
\* number of successful POSTs, every stored item sits under its own id, none
\* above the number of POSTs, and the item just created is stored under id k.
C17_KthCreatedItemGetsIdK ==
    /\ next_id = response.created + 1
    /\ response.created = 0 => fake_items_db = <<>>
    /\ \A k \in DOMAIN fake_items_db : k <= response.created /\ fake_items_db[k].id = k
    /\ (response.op = "create" /\ response.status = 201) =>
            /\ response.item.id = response.created
            /\ response.created \in DOMAIN fake_items_db
            /\ fake_items_db[response.created] = response.item

\* item 1 was deleted before the second item was created: it got id 2
C17_Witness ==
    /\ response.op = "create" /\ response.status = 201
    /\ response.item.id = 2
    /\ DOMAIN fake_items_db = {2}

\* a body that ItemCreate must refuse
CreateRefused(item_data) ==
    \/ "price" \notin item_data.set \/ item_data.price <= 0
    \/ "name" \notin item_data.set \/ item_data.name = Null
    \/ Len(item_data.name) = 0 \/ Len(item_data.name) > 100
    \/ "description" \in item_data.set /\ item_data.description # Null
            /\ Len(item_data.description) > 500

\* C18: a POST whose body fails validation is answered 422 and leaves the map
\* and the id counter as they were.
C18_InvalidCreateChangesNothing ==
    [][(ItemsStep({"create"}) /\ CreateRefused(response'.item_data)) =>
            (response'.status = 422 /\ ItemsUnchanged)]_vars

\* a price of zero was refused while an item was in the map
C18_Witness ==
    /\ response.op = "create" /\ response.status = 422
    /\ response.item_data.price = 0
    /\ fake_items_db # <<>>

\* the detail holds the words "not found"
SaysNotFound(detail) ==
    \E i \in 1..(Len(detail) - 1) : detail[i] = "not" /\ detail[i + 1] = "found"

\* a body that ItemUpdate must refuse
UpdateRefused(item_data) ==
    \/ "extra" \in item_data.set
    \/ "name" \in item_data.set /\ item_data.name # Null
            /\ (Len(item_data.name) = 0 \/ Len(item_data.name) > 100)
    \/ "price" \in item_data.set /\ item_data.price # None /\ item_data.price <= 0
    \/ "description" \in item_data.set /\ item_data.description # Null
            /\ Len(item_data.description) > 500

\* C19 as stated: GET, PUT and DELETE on an id that is not in the map are
\* answered 404 with a detail that says "not found", whatever the body of the
\* PUT, and leave the map and the id counter as they were.
C19_MissingIdIsAlwaysNotFound ==
    [][(ItemsStep({"get", "update", "delete"}) /\ response'.item_id \notin DOMAIN fake_items_db) =>
            (response'.status = 404 /\ SaysNotFound(response'.detail) /\ ItemsUnchanged)]_vars

\* C19: GET, DELETE and a PUT whose body passes validation, on an id that is
\* not in the map (never created, or deleted), are answered 404 with a detail
\* that says "not found"; a PUT whose body fails validation is answered 422;
\* all of them leave the map and the id counter as they were.
C19_MissingIdIsNotFoundOnceBodyIsValid ==
    [][(ItemsStep({"get", "update", "delete"}) /\ response'.item_id \notin DOMAIN fake_items_db) =>
            /\ ItemsUnchanged
            /\ IF response'.op = "update" /\ UpdateRefused(response'.item_data)
               THEN response'.status = 422
               ELSE response'.status = 404 /\ SaysNotFound(response'.detail)]_vars

\* item 1 was created and deleted, and a second DELETE of it was answered 404
C19_Witness ==
    /\ response.op = "delete" /\ response.status = 404 /\ response.item_id = 1
    /\ response.created >= 1
    /\ SaysNotFound(response.detail)

\* the value a PUT leaves in a field: the one sent, or else the one stored
Supplied(item_data, field, sent, stored) == IF field \in item_data.set THEN sent ELSE stored

\* C20: a PUT that is accepted on an item in the map changes exactly the fields
\* its body carries: the item keeps its id and every field not sent, every
\* other item and the id counter stay as they were.
C20_UpdateChangesOnlySuppliedFields ==
    [][(/\ ItemsStep({"update"})
        /\ response'.item_id \in DOMAIN fake_items_db
        /\ ~UpdateRefused(response'.item_data)) =>
            LET old == fake_items_db[response'.item_id]
                new == fake_items_db'[response'.item_id]
                sent == response'.item_data
            IN /\ DOMAIN fake_items_db' = DOMAIN fake_items_db
               /\ \A k \in DOMAIN fake_items_db \ {response'.item_id} :
                        fake_items_db'[k] = fake_items_db[k]
               /\ next_id' = next_id
               /\ new.id = old.id
               /\ new.name = Supplied(sent, "name", sent.name, old.name)
               /\ new.description = Supplied(sent, "description", sent.description, old.description)
               /\ new.price = Supplied(sent, "price", sent.price, old.price)
               /\ new.is_active = Supplied(sent, "is_active", sent.is_active, old.is_active)]_vars

\* name and price of item 1 were replaced, its description kept, next to item 2
C20_Witness ==
    /\ response.op = "update" /\ response.status = 200 /\ response.item_id = 1
    /\ response.item_data.set = {"name", "price"}
    /\ DOMAIN fake_items_db = {1, 2}
    /\ fake_items_db[1].name = <<2>> /\ fake_items_db[1].price = 500
    /\ fake_items_db[1].description = <<3>>


\* the items of a listing, as a set
Listed(items) == {items[i] : i \in 1..Len(items)}

\* C21: the map holds exactly the items created and not yet deleted, and the
\* reads show it: a POST adds the new item and nothing else, a PUT keeps the
\* ids, a DELETE answered 204 removes its id and nothing else; GET /items/
\* returns each stored item once, with its current fields (an empty array when
\* there is none), and GET /items/{id} answers 200 with the stored item for an
\* id in the map and 404 otherwise.
C21_ReadsShowCreatedAndNotDeleted ==
    [][/\ ItemsStep({"list"}) =>
            /\ Len(response'.items) = Cardinality(DOMAIN fake_items_db)
            /\ Listed(response'.items) = {fake_items_db[k] : k \in DOMAIN fake_items_db}
            /\ ItemsUnchanged
       /\ ItemsStep({"get"}) =>
            /\ ItemsUnchanged
            /\ IF response'.item_id \in DOMAIN fake_items_db
               THEN response'.status = 200 /\ response'.item = fake_items_db[response'.item_id]
               ELSE response'.status = 404
       /\ (ItemsStep({"delete"}) /\ response'.status = 204) =>
            /\ response'.item_id \in DOMAIN fake_items_db
            /\ DOMAIN fake_items_db' = DOMAIN fake_items_db \ {response'.item_id}
            /\ \A k \in DOMAIN fake_items_db' : fake_items_db'[k] = fake_items_db[k]
       /\ (ItemsStep({"create"}) /\ response'.status = 201) =>
            /\ DOMAIN fake_items_db' = DOMAIN fake_items_db \cup {response'.item.id}
            /\ response'.item.id \notin DOMAIN fake_items_db
            /\ \A k \in DOMAIN fake_items_db : fake_items_db'[k] = fake_items_db[k]
       /\ ItemsStep({"update"}) => DOMAIN fake_items_db' = DOMAIN fake_items_db
       /\ (ItemsStep({"create", "delete"}) /\ response'.status \notin {201, 204}) =>
            ItemsUnchanged]_vars

\* two items were created, one was deleted and the other renamed: the listing
\* holds the renamed item alone
C21_Witness ==
    /\ response.op = "list" /\ response.created = 2
    /\ Len(response.items) = 1
    /\ response.items[1].name = <<2>>

\* C22: a scheduler job run closes the session it opened exactly once, on
\* the normal path and on the raising path alike: nothing is closed before
\* the finally clause, a finished run has opened one session and closed it
\* once, an exception raised by the orchestration call has been logged by
\* the time the run ends, and none leaves the job
C22_JobClosesItsSessionOnce ==
    /\ ~job.propagated
    /\ job.pc \in {"try", "except", "finally"} => job.opened = 1 /\ job.closed = 0
    /\ job.pc = "idle" /\ job.name # "none" => job.opened = 1 /\ job.closed = 1
    /\ job.pc = "idle" /\ job.raised => job.logged

C22_Witness ==
    /\ job.pc = "idle" /\ job.name = "fetch_fixtures_job"
    /\ job.raised /\ job.closed = 1 /\ last.kind = "fetch" /\ last.raised

\* C23: a threshold request sets should_monitor to (favorite_odds <=
\* threshold) on every match with favorite odds and changes nothing else of
\* it, leaves every match without favorite odds as it was, keeps every
\* notification_sent flag, and lists as newly monitored exactly the matches
\* whose should_monitor went from false to true (a step that leaves the clock
\* alone and ends with a threshold answer is a threshold request)
NewlyMonitored == {m \in matches : m.favorite_odds # None /\ ~m.should_monitor /\ ById(matches', m.id).should_monitor}

EntryOf(m) == [home |-> NameOrUnknown(teams, m.home_team_id), away |-> NameOrUnknown(teams, m.away_team_id), odds |-> m.favorite_odds]

C23_ThresholdSetsShouldMonitor ==
    [][last'.kind = "threshold" /\ now' = now =>
        /\ {m.id : m \in matches'} = {m.id : m \in matches}
        /\ \A m \in matches :
            LET after == ById(matches', m.id) IN
            IF m.favorite_odds = None THEN after = m
            ELSE after = [m EXCEPT !.should_monitor = m.favorite_odds <= last'.threshold]
        /\ Len(last'.newly_monitored) = Cardinality(NewlyMonitored)
        /\ \A m \in NewlyMonitored :
            \E i \in 1..Len(last'.newly_monitored) : last'.newly_monitored[i] = EntryOf(m)
        /\ \A i \in 1..Len(last'.newly_monitored) :
            \E m \in NewlyMonitored : last'.newly_monitored[i] = EntryOf(m)]_vars

C23_Witness ==
    /\ last.kind = "threshold" /\ Len(last.newly_monitored) = 1
    /\ \E m \in matches : m.favorite_odds = None
    /\ \E m \in matches : m.favorite_odds = last.threshold /\ m.should_monitor /\ m.notification_sent

\* C24: fetch_and_store_odds leaves every stored match whose status is not
\* "NS" exactly as it was
C24_OddsTouchOnlyNotStarted ==
    [][last'.kind = "odds" => \A m \in matches : m.status # "NS" => m \in matches']_vars

C24_Witness ==
    /\ last.kind = "odds" /\ last.ret = 0
    /\ \E m \in matches : /\ m.status = "LIVE" /\ m.favorite_odds = 130
                          /\ NameOrUnknown(teams, m.home_team_id) = NameA
                          /\ NameOrUnknown(teams, m.away_team_id) = NameB

\* C25: in fetch_and_store_odds every dispatch of the low-odds alert is for
\* a match the call priced, not notified before the call nor at the dispatch,
\* whose favorite odds as just stored are strictly below the threshold, and
\* every match the call left priced below the threshold has should_monitor set
C25_LowOddsAlertOnlyBelowThresholdAndUnnotified ==
    [][last'.kind = "odds" =>
        /\ \A i \in 1..Len(last'.calls) :
            /\ HasId(matches, last'.calls[i].id)
            /\ ~ById(matches, last'.calls[i].id).notification_sent
            /\ ~last'.calls[i].notified
            /\ last'.calls[i].odds # None
            /\ last'.calls[i].odds < FAVORITE_ODDS_THRESHOLD
            /\ last'.calls[i].id \in last'.updated
        /\ \A id \in last'.updated :
            LET m == ById(matches', id) IN
            m.favorite_odds # None /\ m.favorite_odds < FAVORITE_ODDS_THRESHOLD
                => m.should_monitor]_vars

C25_Witness ==
    /\ last.kind = "odds" /\ Len(last.calls) = 1 /\ last.calls[1].invoked
    /\ \E m \in matches : /\ m.id = last.calls[1].id /\ m.id \in last.updated
                          /\ m.favorite_odds = 130 /\ m.should_monitor

\* C26: a call of fetch_and_store_fixtures commits at most once, at its end
C26_OneCommitPerCall == last.kind = "fetch" => last.commits <= 1

\* C27: a monitoring pass (here the one that /test-alert runs, with the
\* live scores unavailable) asks the fixture provider by id only for matches
\* whose provider id is not above 500,000
C27_SyntheticIdsAreNotQueried ==
    last.kind = "test_alert" =>
        \A i \in 1..Len(last.queries) : last.queries[i].api_id <= 500000

\* C28: a selected match that the live-score sweep holds a record of, with
\* scores, ends the tick with the scores of the record and with status
\* "LIVE" if the record is not completed, "FT" if it is
RecordScore(live_match, name) ==
    IF \E i \in 1..Len(live_match.scores) : live_match.scores[i].name = name
    THEN live_match.scores[CHOOSE i \in 1..Len(live_match.scores) : live_match.scores[i].name = name].score
    ELSE 0

FoundInSweep(m) ==
    /\ m.id \in last'.selected
    /\ NameOrUnknown(teams, m.home_team_id) = last'.live_match.home_team
    /\ NameOrUnknown(teams, m.away_team_id) = last'.live_match.away_team

C28_FoundMatchGetsLiveOrFinalStatus ==
    [][last'.kind = "live" /\ last'.live_match.scores # <<>> =>
        \A m \in matches : FoundInSweep(m) =>
            LET after == ById(matches', m.id) IN
            /\ after.status = IF last'.live_match.completed THEN "FT" ELSE "LIVE"
            /\ after.home_score = RecordScore(last'.live_match, last'.live_match.home_team)
            /\ after.away_score = RecordScore(last'.live_match, last'.live_match.away_team)]_vars

\* C29: a match updated from a live-score record with a known commence time
\* gets current_minute = min(90, floor of the minutes elapsed since then) if
\* that is positive and no minute otherwise, so a minute written here is
\* between 1 and 90
FloorMinutes(live_match) == (now - live_match.commence_time) \div MinuteSeconds

C29_EstimatedMinuteIsCappedOrUnset ==
    [][last'.kind = "live" /\ last'.live_match.commence_time # None =>
        \A id \in last'.updated :
            LET minute == ById(matches', id).current_minute IN
            /\ minute = IF FloorMinutes(last'.live_match) > 0
                        THEN Min2(MinuteCap, FloorMinutes(last'.live_match))
                        ELSE None
            /\ minute # None => minute \in 1..MinuteCap]_vars

C29_Witness ==
    /\ last.kind = "live" /\ last.updated # {}
    /\ last.live_match.commence_time = now - 2 * HourSeconds
    /\ \A id \in last.updated : ById(matches, id).current_minute = MinuteCap

\* C30: the match-id based simulation leaves status, current_minute,
\* home_score, away_score and notification_sent of every match, the probed
\* one included, as they were, whether an alert was sent or not; and it
\* dispatches the alert only for a probed match that was not notified and
\* whose simulated state is in the window with the favorite losing
ProbedFields(m) == <<m.status, m.current_minute, m.home_score, m.away_score, m.notification_sent>>

C30_SimulationRestoresTheMatch ==
    [][last'.kind = "simulation" =>
        /\ {m.id : m \in matches'} = {m.id : m \in matches}
        /\ \A m \in matches : ProbedFields(ById(matches', m.id)) = ProbedFields(m)
        /\ last'.calls # <<>> =>
            /\ HasId(matches, last'.match_id)
            /\ ~ById(matches, last'.match_id).notification_sent
            /\ is_in_monitoring_window(Simulated(ById(matches, last'.match_id), last'.home_score, last'.away_score, last'.current_minute))
            /\ is_favorite_losing(Simulated(ById(matches, last'.match_id), last'.home_score, last'.away_score, last'.current_minute))]_vars

C30_Witness ==
    /\ last.kind = "simulation" /\ last.ret = 1 /\ Len(last.calls) = 1
    /\ HasId(matches, last.match_id)
    /\ ById(matches, last.match_id).status = "NS"
    /\ ById(matches, last.match_id).home_score = None
    /\ ~ById(matches, last.match_id).notification_sent
    /\ \E n \in notifications : n.match_id = last.match_id

\* the provider ids that /test-alert gives to its league, teams and match
TestIds == {TestLeagueId, TestHomeId, TestAwayId, TestMatchId}

\* every row of the table that is not a test row is still there afterwards
KeptIn(rows, after) ==
    \A r \in rows : r.api_id \notin TestIds =>
        \E x \in after : x.id = r.id /\ x.api_id = r.api_id

\* C31: the clearing step of /test-alert deletes only the rows of an earlier
\* test; every league, team and match stored by a fetch is still in the
\* store after the request
C31_ClearingKeepsFetchedRows ==
    [][last'.kind = "test_alert" =>
        /\ KeptIn(matches, matches')
        /\ KeptIn(teams, teams')
        /\ KeptIn(leagues, leagues')]_vars

\* C32: a /test-alert request whose scenario is inside the monitoring window
\* with the favorite losing, made while the notifier is up, sends an alert
\* for the test match and reports alert_sent = true, and its monitoring pass
\* leaves every other match as it was
C32_DueSimulationSendsAlert ==
    [][last'.kind = "test_alert" /\ last'.due =>
        /\ last'.alert_sent
        /\ last'.ret >= 1
        /\ \A m \in matches : m.api_id < TestIdFloor => m \in matches']_vars

\* whether the execution invoked the notifier for the match
DispatchedBy(r, id) == \E k \in 1..Len(r.s.calls) : r.s.calls[k].id = id /\ r.s.calls[k].invoked

\* C33: nothing keeps two overlapping executions of monitor_live_matches
\* apart.  An execution that starts selects every stored match that is
\* monitored and not notified, also one that the other execution selected and
\* has not finished with; and an execution that is through has invoked the
\* notifier for each match it selected exactly when its own live scores
\* showed the favorite behind at minute 60, whatever the other one did.
C33_OverlappingRunsAreNotKeptApart ==
    [][\A p \in Runs :
        /\ runs[p].pc = "idle" /\ runs'[p] # runs[p] =>
              runs'[p].s.selected =
                  {m.id : m \in {x \in matches : x.should_monitor /\ ~x.notification_sent}}
        /\ runs'[p].done =>
              \A id \in runs'[p].s.selected :
                  DispatchedBy(runs'[p], id)
                      <=> runs'[p].live_scores = <<LiveRecord(Scores(0, 2), FALSE, 60)>>]_vars

\* both executions selected the same match, both delivered an alert for it,
\* and the store holds both deliveries
C33_Witness ==
    \E m \in matches :
        /\ \A p \in Runs :
            /\ runs[p].done /\ m.id \in runs[p].s.selected
            /\ \E k \in 1..Len(runs[p].s.calls) :
                  runs[p].s.calls[k].id = m.id /\ runs[p].s.calls[k].success
        /\ Cardinality({n \in notifications : n.match_id = m.id /\ n.status = "sent"}) = 2

\* C34: the item handlers run whole, one after the other, in whatever order
\* the concurrent requests reach them.  Every successful create takes an id
\* that no item holds and that is above every id handed out before, stores
\* its item under it, leaves every other stored item as it was, and leaves
\* the counter at one plus the number of successful creates.
C34_CreatesDoNotCollide ==
    [][response'.op = "create" /\ response'.status = 201 =>
        /\ response'.created = response.created + 1
        /\ response'.item.id = response'.created
        /\ response'.item.id \notin DOMAIN fake_items_db
        /\ \A k \in DOMAIN fake_items_db :
              /\ k < response'.item.id
              /\ k \in DOMAIN fake_items_db' /\ fake_items_db'[k] = fake_items_db[k]
        /\ DOMAIN fake_items_db' = DOMAIN fake_items_db \cup {response'.item.id}
        /\ fake_items_db'[response'.item.id] = response'.item
        /\ next_id' = response'.created + 1]_vars

\* two creates one after the other: both items are stored, under ids 1 and 2
C34_Witness ==
    /\ response.op = "create" /\ response.status = 201
    /\ DOMAIN fake_items_db = {1, 2}
    /\ fake_items_db[2] = response.item
    /\ next_id = 3

\* the store holds the record of a delivered low-odds alert for the match
LowOddsDelivered(m) ==
    \E n \in notifications :
        n.match_id = m.id /\ n.message = "Low odds alert" /\ n.status = "sent"

\* C35: a match whose low-odds alert fetch_and_store_odds delivered has
\* notification_sent set and keeps it; no later run of monitor_live_matches
\* selects it, updates it or dispatches a live alert for it
C35_LowOddsAlertedMatchIsNeverMonitored ==
    [][\A m \in matches : LowOddsDelivered(m) =>
        /\ m.notification_sent
        /\ \E x \in matches' : x.id = m.id /\ x.notification_sent
        /\ TickStep =>
              /\ m.id \notin last'.selected
              /\ m.id \notin last'.updated
              /\ m.id \notin Dispatched(last')
              /\ m \in matches']_vars

\* a tick with live scores ran while the only stored match was one that the
\* low-odds alert had marked
C35_Witness ==
    /\ last.kind = "monitor" /\ last.sweep /\ last.selected = {}
    /\ \E m \in matches : LowOddsDelivered(m) /\ m.notification_sent /\ m.favorite_odds = 130

\* C36: a match with notification_sent set has notified_at set, whether the
\* live alert or the low-odds alert marked it
C36_NotifiedMatchHasNotifiedAt ==
    \A m \in matches : m.notification_sent => m.notified_at # None

\* C37: a match with home odds, away odds and favorite odds recorded has as
\* favorite odds the lower of the two, and they are the recorded odds of the
\* side that favorite_team_id names
C37_FavoriteOddsAreThoseOfTheFavorite ==
    \A m \in matches :
        m.home_odds # None /\ m.away_odds # None /\ m.favorite_odds # None =>
            /\ m.favorite_odds = Min2(m.home_odds, m.away_odds)
            /\ \/ m.favorite_team_id = m.home_team_id /\ m.favorite_odds = m.home_odds
               \/ m.favorite_team_id = m.away_team_id /\ m.favorite_odds = m.away_odds

\* C38: every Notification row references a Match row that is in the store
C38_NotificationReferencesStoredMatch ==
    \A n \in notifications : HasId(matches, n.match_id)

\* C39: the fallback asks the fixture provider about a fixture of the
\* dual-favorite path under the provider's own id X, for the home-favorite
\* row (api_id X) and for the away-favorite row (api_id X + 1,000,000)
C39_FallbackQueriesOriginalId ==
    last.kind = "fallback" =>
        \A i \in 1..Len(last.queries) :
            \E x \in ProviderIds :
                /\ last.queries[i].api_id \in {x, x + AwayOffset}
                /\ last.queries[i].real_api_id = x


\* C40: after any sequence of create, update and delete requests, updates
\* that send a field as null included, every stored item has a name of 1 to
\* 100 characters, a strictly positive price, a description of at most 500
\* characters and a boolean is_active
C40_StoredItemsSatisfyItemConstraints ==
    \A k \in DOMAIN fake_items_db :
        /\ ItemValid(fake_items_db[k])
        /\ fake_items_db[k].is_active \in BOOLEAN

====
